---- MODULE Spec2Model ----
(***************************************************************************)
(* Field-by-field extraction with provenance validation.                   *)
(*                                                                         *)
(*   script_without_anything.py      the plain extractor: one model query  *)
(*                                   per scalar leaf, substring guardrail, *)
(*                                   type conversion, bounded retries      *)
(*   Scripts/script_with_ProvenanceLLM.py                                  *)
(*                                   the Guardrails extractor: scalar and  *)
(*                                   list leaves behind a guard            *)
(*   Scripts/script_with_JP.py       validate_fields_against_source        *)
(*                                                                         *)
(* Python strings are sequences of one-character strings; Python values    *)
(* are records tagged by their type in the field t.                        *)
(***************************************************************************)
EXTENDS Integers, Sequences, FiniteSets, TLC

VARIABLES
    script,           \* which extractor runs: "plain" or "guard"
    client,           \* the module-level client object: "ok", or "None" (plain only)
    text_data,        \* the source document
    json_schema,      \* the schema tree, a map from key paths to nodes
    output_data,      \* the output tree under construction, same representation
    stack,            \* populate_data's call stack: frames [path, i]
    pc,               \* position of the running code
    field_description,\* the leaf being extracted (key path or description)
    expected_type,    \* extract_and_validate_field's expected_type
    max_retries,      \* extract_and_validate_field's max_retries
    attempt,          \* iterations of the retry loop completed
    extracted_value,  \* the answer of the current attempt
    ret,              \* the value the extractor returned
    calls,            \* model queries issued for the current leaf
    checks,           \* guardrail (substring) evaluations for the current leaf
    guard_fail,       \* "GUARDRAIL FAILED" reports for the current leaf
    conv_fail,        \* "Could not convert" reports for the current leaf
    failed_call,      \* whether a client call of the current leaf raised
    visited,          \* the leaves an extractor was invoked for, in order
    response,         \* what the guard call of the current leaf gave
    callee,           \* the extractor invoked for the current leaf
    candidate,        \* the grounding oracle's candidate value
    validated_data,   \* validate_fields_against_source's argument
    verdict,          \* the grounding oracle's last answer
    mock,             \* None, or the mocked model and guard the walk runs against
    validated_email,  \* process_text_with_validators: the gate's validated output
    validated_structure, \* ... and the structure guard's validated output
    queries,          \* the guard calls the current call has issued, in order
    processed_data,   \* what process_text_with_validators returned
    email_files,      \* app.py: the listing of EMAIL_DIR
    PROCESSING_CACHE, \* app.py: filename -> [status, content, processed]
    executor,         \* app.py: the pool, [_shutdown, work_queue]
    main_pc,          \* position of the main thread
    idx,              \* iterations of the submit loop completed
    filename,         \* the worker's current task, "" when it has none
    request,          \* the get_email_content request in flight
    reply,            \* the last response of a route
    submitted,        \* the filenames given to executor.submit, in order
    begun,            \* the tasks the worker began, in order
    coerced,          \* the number conversion applied to a raw answer
    recoerced         \* the number conversion applied to that result

walkVars   == <<script, client, mock, text_data, json_schema, output_data, stack,
                visited>>
fieldVars  == <<field_description, expected_type, max_retries, attempt,
                extracted_value, ret, calls, checks, guard_fail, conv_fail,
                failed_call, response, callee>>
groundVars == <<candidate, validated_data, verdict>>
jpVars     == <<validated_email, validated_structure, queries, processed_data>>
appVars    == <<email_files, PROCESSING_CACHE, executor, main_pc, idx, filename,
                request, reply, submitted, begun>>
coerceVars == <<coerced, recoerced>>
restVars   == <<jpVars, appVars, coerceVars>>
vars       == <<walkVars, fieldVars, groundVars, restVars, pc>>

(***************************************************************************)
(* Bounds of the model.                                                    *)
(***************************************************************************)
MaxRetriesArg == 3     \* max_retries arguments tried: 0 .. MaxRetriesArg
MaxCandLen    == 2     \* length of the candidates of the substring check
MaxDocLen     == 3     \* length of the documents of the substring check

(***************************************************************************)
(* Python values.                                                          *)
(***************************************************************************)
None       == [t |-> "None"]
Str(s)     == [t |-> "str", s |-> s]
IntV(n)    == [t |-> "int", n |-> n]
FloatV(n, e) == [t |-> "float", n |-> n, e |-> e]      \* n / 10^e
Bool(b)    == [t |-> "bool", b |-> b]
List(xs)   == [t |-> "list", items |-> xs]
Dict(ks)   == [t |-> "dict", keys |-> ks]

\* The outcome of an expression: a value, or a raised exception.
Ok(v)    == [ok |-> TRUE, v |-> v]
Raise(e) == [ok |-> FALSE, exc |-> e]

(***************************************************************************)
(* str methods.                                                            *)
(***************************************************************************)
UpperToLower ==
    ("A" :> "a") @@ ("B" :> "b") @@ ("C" :> "c") @@ ("D" :> "d") @@ ("E" :> "e") @@
    ("F" :> "f") @@ ("G" :> "g") @@ ("H" :> "h") @@ ("I" :> "i") @@ ("J" :> "j") @@
    ("K" :> "k") @@ ("L" :> "l") @@ ("M" :> "m") @@ ("N" :> "n") @@ ("O" :> "o") @@
    ("P" :> "p") @@ ("Q" :> "q") @@ ("R" :> "r") @@ ("S" :> "s") @@ ("T" :> "t") @@
    ("U" :> "u") @@ ("V" :> "v") @@ ("W" :> "w") @@ ("X" :> "x") @@ ("Y" :> "y") @@
    ("Z" :> "z")

LowerCh(c) == IF c \in DOMAIN UpperToLower THEN UpperToLower[c] ELSE c

\* s.lower()
PyLower(s) == [i \in 1..Len(s) |-> LowerCh(s[i])]

\* sub in s, by scanning the start positions from the left
RECURSIVE FindFrom(_, _, _)
FindFrom(sub, s, i) ==
    IF i + Len(sub) - 1 > Len(s) THEN FALSE
    ELSE IF SubSeq(s, i, i + Len(sub) - 1) = sub THEN TRUE
    ELSE FindFrom(sub, s, i + 1)

PyIn(sub, s) == FindFrom(sub, s, 1)

\* s.replace(c, "") for a one-character c
RECURSIVE PyRemove(_, _)
PyRemove(s, c) ==
    IF s = <<>> THEN <<>>
    ELSE IF Head(s) = c THEN PyRemove(Tail(s), c)
    ELSE <<Head(s)>> \o PyRemove(Tail(s), c)

\* s.strip()
RECURSIVE PyLStrip(_)
PyLStrip(s) == IF s # <<>> /\ Head(s) = " " THEN PyLStrip(Tail(s)) ELSE s

RECURSIVE PyRStrip(_)
PyRStrip(s) ==
    IF s # <<>> /\ s[Len(s)] = " " THEN PyRStrip(SubSeq(s, 1, Len(s) - 1)) ELSE s

PyStrip(s) == PyRStrip(PyLStrip(s))

(***************************************************************************)
(* int(s) and float(s) on the characters the answers are made of: digits,  *)
(* sign, '.', blanks and letters (no exponent, underscore, inf or nan      *)
(* forms occur in the answers drawn below).                                *)
(***************************************************************************)
DigitVal ==
    ("0" :> 0) @@ ("1" :> 1) @@ ("2" :> 2) @@ ("3" :> 3) @@ ("4" :> 4) @@
    ("5" :> 5) @@ ("6" :> 6) @@ ("7" :> 7) @@ ("8" :> 8) @@ ("9" :> 9)

IsDigits(s) == \A i \in 1..Len(s) : s[i] \in DOMAIN DigitVal

RECURSIVE DigitsToNat(_)
DigitsToNat(s) ==
    IF s = <<>> THEN 0
    ELSE 10 * DigitsToNat(SubSeq(s, 1, Len(s) - 1)) + DigitVal[s[Len(s)]]

HasSign(s) == s # <<>> /\ Head(s) \in {"+", "-"}
Unsigned(s) == IF HasSign(s) THEN Tail(s) ELSE s
SignOf(s) == IF s # <<>> /\ Head(s) = "-" THEN -1 ELSE 1

PyInt(s0) ==
    LET s == PyStrip(s0)
        d == Unsigned(s)
    IN  IF d # <<>> /\ IsDigits(d) THEN Ok(IntV(SignOf(s) * DigitsToNat(d)))
        ELSE Raise("ValueError")

\* the fraction digits without their trailing zeros
RECURSIVE DropTrailingZeros(_)
DropTrailingZeros(s) ==
    IF s # <<>> /\ s[Len(s)] = "0" THEN DropTrailingZeros(SubSeq(s, 1, Len(s) - 1))
    ELSE s

DotAt(s) == CHOOSE i \in 1..Len(s) : s[i] = "."

PyFloat(s0) ==
    LET s == PyStrip(s0)
        d == Unsigned(s)
    IN  IF \E i \in 1..Len(d) : d[i] = "."
        THEN LET k    == DotAt(d)
                 ip   == SubSeq(d, 1, k - 1)
                 fp   == SubSeq(d, k + 1, Len(d))
             IN  IF IsDigits(ip) /\ IsDigits(fp) /\ Len(ip) + Len(fp) > 0
                 THEN LET f == DropTrailingZeros(fp)
                      IN  Ok(FloatV(SignOf(s) * DigitsToNat(ip \o f), Len(f)))
                 ELSE Raise("ValueError")
        ELSE IF d # <<>> /\ IsDigits(d) THEN Ok(FloatV(SignOf(s) * DigitsToNat(d), 0))
        ELSE Raise("ValueError")

(***************************************************************************)
(* json.loads on the characters the raw outputs are made of: brackets,     *)
(* braces, quotes, ':', ',', '-', '.', digits, letters and blanks (no      *)
(* escapes, exponents, NaN or Infinity occur in the raw outputs drawn      *)
(* below).  A parse is [ok, v, i]: the value and the index after it.       *)
(***************************************************************************)
JDict(ks, vs) == [t |-> "dict", keys |-> ks, vals |-> vs]
JFail         == [ok |-> FALSE]
JOk(v, i)     == [ok |-> TRUE, v |-> v, i |-> i]

At(s, i) == IF i >= 1 /\ i <= Len(s) THEN s[i] ELSE "EOF"

RECURSIVE SkipWs(_, _)
SkipWs(s, i) == IF At(s, i) = " " THEN SkipWs(s, i + 1) ELSE i

RECURSIVE ScanDigits(_, _)
ScanDigits(s, i) == IF At(s, i) \in DOMAIN DigitVal THEN ScanDigits(s, i + 1) ELSE i

StartsWith(s, i, w) ==
    i + Len(w) - 1 <= Len(s) /\ SubSeq(s, i, i + Len(w) - 1) = w

\* (-?(?:0|[1-9]\d*))(\.\d+)?
ParseNumber(s, i) ==
    LET neg  == At(s, i) = "-"
        sign == IF neg THEN -1 ELSE 1
        a    == IF neg THEN i + 1 ELSE i
        b    == IF At(s, a) = "0" THEN a + 1 ELSE ScanDigits(s, a)
        c    == IF At(s, b) = "." THEN ScanDigits(s, b + 1) ELSE b
    IN  IF b = a THEN JFail
        ELSE IF c > b + 1
        THEN LET f == DropTrailingZeros(SubSeq(s, b + 1, c - 1))
             IN  JOk(FloatV(sign * DigitsToNat(SubSeq(s, a, b - 1) \o f), Len(f)), c)
        ELSE JOk(IntV(sign * DigitsToNat(SubSeq(s, a, b - 1))), b)

RECURSIVE FindQuote(_, _)
FindQuote(s, j) ==
    IF j > Len(s) THEN 0
    ELSE IF s[j] = "\"" THEN j
    ELSE FindQuote(s, j + 1)

\* s[i] is the opening quote
ParseString(s, i) ==
    LET q == FindQuote(s, i + 1)
    IN  IF q = 0 THEN JFail ELSE JOk(Str(SubSeq(s, i + 1, q - 1)), q + 1)

\* d[k] = v on a dict held as parallel key and value sequences
DictSet(ks, vs, k, v) ==
    IF \E n \in 1..Len(ks) : ks[n] = k
    THEN [keys |-> ks, vals |-> [n \in 1..Len(vs) |-> IF ks[n] = k THEN v ELSE vs[n]]]
    ELSE [keys |-> Append(ks, k), vals |-> Append(vs, v)]

\* the one element of a singleton: Only({e : x \in {v}}) is e with x
\* evaluated once
Only(S) == CHOOSE x \in S : TRUE

RECURSIVE ParseValue(_, _)
RECURSIVE ParseItems(_, _, _)
RECURSIVE ParseMembers(_, _, _, _)

ParseValue(s, i) ==
    LET c == At(s, i)
    IN  IF c = "\"" THEN ParseString(s, i)
        ELSE IF c = "["
        THEN LET j == SkipWs(s, i + 1)
             IN  IF At(s, j) = "]" THEN JOk(List(<<>>), j + 1)
                 ELSE ParseItems(s, j, <<>>)
        ELSE IF c = "{"
        THEN LET j == SkipWs(s, i + 1)
             IN  IF At(s, j) = "}" THEN JOk(JDict(<<>>, <<>>), j + 1)
                 ELSE ParseMembers(s, j, <<>>, <<>>)
        ELSE IF StartsWith(s, i, <<"n","u","l","l">>) THEN JOk(None, i + 4)
        ELSE IF StartsWith(s, i, <<"t","r","u","e">>) THEN JOk(Bool(TRUE), i + 4)
        ELSE IF StartsWith(s, i, <<"f","a","l","s","e">>) THEN JOk(Bool(FALSE), i + 5)
        ELSE IF c = "-" \/ c \in DOMAIN DigitVal THEN ParseNumber(s, i)
        ELSE JFail

\* the items of an array, i at the first character of an item
ParseItems(s, i, acc) ==
    Only({ IF ~r.ok THEN JFail
           ELSE Only({ IF At(s, j) = "]" THEN JOk(List(Append(acc, r.v)), j + 1)
                       ELSE IF At(s, j) = ","
                       THEN ParseItems(s, SkipWs(s, j + 1), Append(acc, r.v))
                       ELSE JFail
                       : j \in {SkipWs(s, r.i)} })
           : r \in {ParseValue(s, i)} })

\* what follows a member: the end of the object or the next member
AfterMember(s, m, d) ==
    IF At(s, m) = "}" THEN JOk(JDict(d.keys, d.vals), m + 1)
    ELSE IF At(s, m) = "," THEN ParseMembers(s, SkipWs(s, m + 1), d.keys, d.vals)
    ELSE JFail

\* the members of an object, i at the first character of a key
ParseMembers(s, i, ks, vs) ==
    IF At(s, i) # "\"" THEN JFail
    ELSE Only({ IF ~k.ok THEN JFail
                ELSE Only({ IF At(s, j) # ":" THEN JFail
                            ELSE Only({ IF ~r.ok THEN JFail
                                        ELSE Only({ AfterMember(s, m, d)
                                                    : m \in {SkipWs(s, r.i)},
                                                      d \in {DictSet(ks, vs, k.v.s, r.v)} })
                                        : r \in {ParseValue(s, SkipWs(s, j + 1))} })
                            : j \in {SkipWs(s, k.i)} })
                : k \in {ParseString(s, i)} })

\* json.loads(raw) for raw a str or None
json_loads(raw) ==
    IF raw.t # "str" THEN Raise("TypeError")
    ELSE Only({ IF r.ok /\ SkipWs(raw.s, r.i) > Len(raw.s) THEN Ok(r.v)
                ELSE Raise("JSONDecodeError")
                : r \in {ParseValue(raw.s, SkipWs(raw.s, 1))} })

(***************************************************************************)
(* The documents and the model's answers.                                  *)
(***************************************************************************)
NA == <<"N", "/", "A">>                                     \* "N/A"

DocA == <<"D","a","l"," ","1",",","2","0","0"," ","Y","e","s">>   \* "Dal 1,200 Yes"
DocB == <<"N","/","A"," ","$","1",".","5">>                       \* "N/A $1.5"
DocC == <<"S","t","a","c","k","a","b","l","e"," ","t","r","u","e">>   \* "Stackable true"
Docs == {DocA, DocB, DocC}

\* message.content of a model response, before .strip()
Contents == {
    NA,                              \* the sentinel
    <<"n","/","a">>,                 \* not the sentinel; in DocB
    <<" ","d","a","l"," ">>,         \* in DocA after strip and lower; no number
    <<"P","a","r">>,                 \* in no document
    <<"1",",","2","0","0">>,         \* in DocA; the number 1200
    <<"1","2","0","0">>,             \* a reformatted number, in no document
    <<"$","1",".","5">>,             \* in DocB; the number 1.5
    <<".">>,                         \* in DocB; float(".") fails
    <<>>,                            \* the empty answer: in every document
    <<"Y","E","S">>,                 \* in DocA; a truthy boolean
    <<"T","r","u","e">>,             \* in DocC; a truthy boolean
    <<"s","t","a","c","k","a","b","l","e">> }   \* in DocC; the domain's truthy word

\* What one call of the chat-completions client does.
LLMOutcomes ==
    {[kind |-> "content", text |-> c] : c \in Contents}
    \cup {[kind |-> "none"],         \* a response whose message.content is None
          [kind |-> "raise"]}        \* the client raises (network, quota, ...)

\* What the guard (Guardrails with ProvenanceLLM, on_fail="fix") makes of a raw
\* output is the library's: it passes it, "fixes" it by dropping the unsupported
\* text, validates to nothing, or raises.
GuardVerdicts == {"pass", "fix", "none", "raise"}

ExpectedTypes == {"string", "number", "boolean"}

\* A mocked model is a function of the description it is asked about (the
\* document is fixed for a run): mock.of[key] holds its answer and the
\* verdicts the guard may give on that answer.
Mocked == mock.t = "mock"

MockKey ==
    IF callee = "extract_and_validate_list" THEN <<"List">>
    ELSE IF script = "guard" THEN <<field_description[1].d>>
    ELSE field_description

\* the outcomes of the next call of the model
Answers(outcomes) ==
    IF Mocked THEN {mock.of[MockKey].answer} ELSE outcomes

\* the verdicts of the guard on the next answer
Verdicts ==
    IF Mocked THEN mock.of[MockKey].verdicts ELSE GuardVerdicts

(***************************************************************************)
(* script_without_anything.py: get_llm_extraction                          *)
(***************************************************************************)
\* the try body: client.chat.completions.create(...) and
\* response.choices[0].message.content.strip()
LLMCall(o) ==
    IF o.kind = "raise" THEN Raise("APIError")
    ELSE IF o.kind = "none" THEN Raise("AttributeError")
    ELSE Ok(PyStrip(o.text))

get_llm_extraction(o) ==
    LET r == LLMCall(o)
    IN  IF r.ok THEN r
        ELSE Ok(NA)                  \* except Exception: return "N/A"

(***************************************************************************)
(* script_without_anything.py: extract_and_validate_field                  *)
(***************************************************************************)
\* range(max_retries + 1): one iteration too many
HasAttemptInclusive == attempt <= max_retries

\* for attempt in range(max_retries): another iteration is left
HasAttempt == attempt < max_retries

\* extracted_value == "N/A"
IsSentinel(v) == v = NA

\* the check made after dropping the thousands separators on both sides
IsGroundedInIgnoringCommas(v, text) ==
    PyIn(PyLower(PyRemove(v, ",")), PyLower(PyRemove(text, ",")))

\* the check without text_data.lower()
IsGroundedInCasedDocument(v, text) == PyIn(PyLower(v), text)

\* extracted_value.lower() in text_data.lower()
IsGroundedIn(v, text) == PyIn(PyLower(v), PyLower(text))

\* the boolean words compared without .lower()
TypeConversionCased(type, v) ==
    IF type = "number"
    THEN LET cleaned_val == PyRemove(PyRemove(v, ","), "$")
         IN  IF PyIn(<<".">>, cleaned_val) THEN PyFloat(cleaned_val)
             ELSE PyInt(cleaned_val)
    ELSE IF type = "boolean"
    THEN Ok(Bool(\/ PyIn(<<"y","e","s">>, v)
                 \/ PyIn(<<"t","r","u","e">>, v)
                 \/ PyIn(<<"s","t","a","c","k","a","b","l","e">>, v)))
    ELSE Ok(Str(v))

\* the body of the try of the type conversion
TypeConversion(type, v) ==
    IF type = "number"
    THEN LET cleaned_val == PyRemove(PyRemove(v, ","), "$")
         IN  IF PyIn(<<".">>, cleaned_val) THEN PyFloat(cleaned_val)
             ELSE PyInt(cleaned_val)
    ELSE IF type = "boolean"
    THEN Ok(Bool(\/ PyIn(<<"y","e","s">>, PyLower(v))
                 \/ PyIn(<<"t","r","u","e">>, PyLower(v))
                 \/ PyIn(<<"s","t","a","c","k","a","b","l","e">>, PyLower(v))))
    ELSE Ok(Str(v))

\* extracted_value = get_llm_extraction(text_data, field_description)
Query ==
    /\ pc = "loop"
    /\ HasAttempt
    /\ \E o \in Answers(LLMOutcomes) :
          LET r == get_llm_extraction(o)
          IN  /\ calls' = calls + 1
              /\ failed_call' = (failed_call \/ o.kind = "raise")
              /\ IF r.ok
                 THEN /\ extracted_value' = r.v
                      /\ pc' = "got"
                 ELSE /\ extracted_value' = extracted_value
                      /\ pc' = "crashed"
    /\ UNCHANGED <<walkVars, groundVars, restVars, field_description, expected_type,
                   max_retries, attempt, ret, checks, guard_fail, conv_fail,
                   response, callee>>

\* the sentinel handled as one more failed attempt
ReturnNotFoundRetries ==
    /\ pc = "got"
    /\ extracted_value = NA
    /\ attempt' = attempt + 1
    /\ pc' = "loop"
    /\ UNCHANGED <<walkVars, groundVars, restVars, field_description, expected_type,
                   max_retries, extracted_value, ret, calls, checks,
                   guard_fail, conv_fail, failed_call, response, callee>>

\* if extracted_value == "N/A": return None
ReturnNotFound ==
    /\ pc = "got"
    /\ IsSentinel(extracted_value)
    /\ ret' = None
    /\ pc' = "ret"
    /\ UNCHANGED <<walkVars, groundVars, restVars, field_description, expected_type,
                   max_retries, attempt, extracted_value, calls, checks,
                   guard_fail, conv_fail, failed_call, response, callee>>

\* the guardrail holds: go on to the type conversion
GuardrailPassed ==
    /\ pc = "got"
    /\ ~IsSentinel(extracted_value)
    /\ IsGroundedIn(extracted_value, text_data)
    /\ checks' = checks + 1
    /\ pc' = "convert"
    /\ UNCHANGED <<walkVars, groundVars, restVars, field_description, expected_type,
                   max_retries, attempt, extracted_value, ret, calls,
                   guard_fail, conv_fail, failed_call, response, callee>>

\* the guardrail fails and the extractor gives up at once
GuardrailFailedGivesUp ==
    /\ pc = "got"
    /\ extracted_value # NA
    /\ ~PyIn(PyLower(extracted_value), PyLower(text_data))
    /\ checks' = checks + 1
    /\ guard_fail' = guard_fail + 1
    /\ ret' = None
    /\ pc' = "ret"
    /\ UNCHANGED <<walkVars, groundVars, restVars, field_description, expected_type,
                   max_retries, attempt, extracted_value, calls, conv_fail,
                   failed_call, response, callee>>

\* the guardrail fails: report, and on to the next iteration
GuardrailFailed ==
    /\ pc = "got"
    /\ ~IsSentinel(extracted_value)
    /\ ~IsGroundedIn(extracted_value, text_data)
    /\ checks' = checks + 1
    /\ guard_fail' = guard_fail + 1
    /\ attempt' = attempt + 1
    /\ pc' = "loop"
    /\ UNCHANGED <<walkVars, groundVars, restVars, field_description, expected_type,
                   max_retries, extracted_value, ret, calls, conv_fail,
                   failed_call, response, callee>>

\* the conversion succeeds: return the converted value
ConvertReturn ==
    /\ pc = "convert"
    /\ TypeConversion(expected_type, extracted_value).ok
    /\ ret' = TypeConversion(expected_type, extracted_value).v
    /\ pc' = "ret"
    /\ UNCHANGED <<walkVars, groundVars, restVars, field_description, expected_type,
                   max_retries, attempt, extracted_value, calls, checks,
                   guard_fail, conv_fail, failed_call, response, callee>>

\* the conversion raises: except ValueError: return None
ConvertFailureReturnsNone ==
    /\ pc = "convert"
    /\ ~TypeConversion(expected_type, extracted_value).ok
    /\ conv_fail' = conv_fail + 1
    /\ ret' = None
    /\ pc' = "ret"
    /\ UNCHANGED <<walkVars, groundVars, restVars, field_description, expected_type,
                   max_retries, attempt, extracted_value, calls, checks,
                   guard_fail, failed_call, response, callee>>

\* the conversion raises: except ValueError: continue
ConvertRetry ==
    /\ pc = "convert"
    /\ ~TypeConversion(expected_type, extracted_value).ok
    /\ IF TypeConversion(expected_type, extracted_value).exc = "ValueError"
       THEN /\ conv_fail' = conv_fail + 1
            /\ attempt' = attempt + 1
            /\ pc' = "loop"
       ELSE /\ UNCHANGED <<conv_fail, attempt>>
            /\ pc' = "crashed"
    /\ UNCHANGED <<walkVars, groundVars, restVars, field_description, expected_type,
                   max_retries, extracted_value, ret, calls, checks,
                   guard_fail, failed_call, response, callee>>

\* the loop is over: report the failure and return None
Exhausted ==
    /\ pc = "loop"
    /\ ~HasAttempt
    /\ ret' = None
    /\ pc' = "ret"
    /\ UNCHANGED <<walkVars, groundVars, restVars, field_description, expected_type,
                   max_retries, attempt, extracted_value, calls, checks,
                   guard_fail, conv_fail, failed_call, response, callee>>

extract_and_validate_field ==
    \/ Query
    \/ ReturnNotFound
    \/ GuardrailPassed
    \/ GuardrailFailed
    \/ ConvertReturn
    \/ ConvertRetry
    \/ Exhausted

(***************************************************************************)
(* One call extract_and_validate_field(text_data, field_description,       *)
(* expected_type, max_retries) with its arguments drawn from bounded sets. *)
(***************************************************************************)
NoGround ==
    /\ candidate = <<>>
    /\ validated_data = None
    /\ verdict = None

\* no call of process_text_with_validators is under way
NoValidators ==
    /\ validated_email = None
    /\ validated_structure = None
    /\ queries = <<>>
    /\ processed_data = None

\* app.py is not running: executor = None, PROCESSING_CACHE = {}
NoApp ==
    /\ email_files = <<>>
    /\ PROCESSING_CACHE = <<>>
    /\ executor = None
    /\ main_pc = "none"
    /\ idx = 0
    /\ filename = ""
    /\ request = None
    /\ reply = None
    /\ submitted = <<>>
    /\ begun = <<>>

NoCoerce ==
    /\ coerced = None
    /\ recoerced = None

InitField ==
    /\ script = "plain"
    /\ client = "ok"
    /\ text_data \in Docs
    /\ json_schema = <<>>
    /\ output_data = <<>>
    /\ stack = <<>>
    /\ visited = <<>>
    /\ pc = "loop"
    /\ field_description = <<"field">>
    /\ expected_type \in ExpectedTypes
    /\ max_retries \in 0..MaxRetriesArg
    /\ attempt = 0
    /\ extracted_value = <<>>
    /\ ret = None
    /\ calls = 0
    /\ checks = 0
    /\ guard_fail = 0
    /\ conv_fail = 0
    /\ failed_call = FALSE
    /\ response = None
    /\ callee = "extract_and_validate_field"
    /\ NoGround
    /\ mock = None
    /\ NoValidators
    /\ NoApp
    /\ NoCoerce

NextField == extract_and_validate_field

SpecField == InitField /\ [][NextField]_vars

(***************************************************************************)
(* Scripts/script_with_ProvenanceLLM.py                                    *)
(***************************************************************************)
\* the raw outputs of the list prompt
RawLists == {
    <<"[","{","\"","c","o","u","n","t","\"",":"," ","1","2","}","]">>,  \* [{"count": 12}]
    <<"[","\"","D","a","l","\"",","," ","\"","P","a","r","\"","]">>,    \* ["Dal", "Par"]
    <<"[","]">>,                                                        \* []
    <<"n","o","t"," ","j","s","o","n">>,                                \* not json
    <<"{","\"","a","\"",":"," ","1","}">>,                              \* {"a": 1}
    <<"\"","D","a","l","\"">>,                                          \* "Dal"
    <<"[","1",",","]">>,                                                \* [1,]
    <<>> }

ListOutcomes ==
    {[kind |-> "content", text |-> c] : c \in RawLists}
    \cup {[kind |-> "none"], [kind |-> "raise"]}

\* call_gemini_with_prompt: the content of the response, "" when the client raises
call_gemini_with_prompt(o) ==
    LET r == IF o.kind = "raise" THEN Raise("APIError")
             ELSE IF o.kind = "none" THEN Ok(None)
             ELSE Ok(Str(o.text))
    IN  IF r.ok THEN r
        ELSE Ok(Str(<<>>))           \* except Exception: return ""

\* response = guard(call_gemini_with_prompt, messages=..., metadata=...)
guard(o, g) ==
    LET called == call_gemini_with_prompt(o)
    IN  IF ~called.ok THEN Raise("PromptCallableException")
        ELSE IF g = "raise" THEN Raise("ValidationError")
        ELSE Ok([raw_llm_output |-> called.v,
                 validated_output |->
                     IF g = "pass" THEN called.v
                     ELSE IF g = "fix" /\ called.v # None THEN Str(<<>>)
                     ELSE None])

\* extract_and_validate_field(text_data, field_description): the try statement
GuardedField(o, g) ==
    LET resp == guard(o, g)
    IN  IF ~resp.ok THEN Ok(None)                    \* except Exception
        ELSE IF resp.v.validated_output = Str(NA) THEN Ok(None)
        ELSE Ok(resp.v.validated_output)

\* the inner try without the isinstance(parsed_list, list) test
ParsedListUnchecked(raw) ==
    LET parsed_list == json_loads(raw)
    IN  IF parsed_list.ok THEN Ok(parsed_list.v)
        ELSE IF parsed_list.exc = "JSONDecodeError" THEN Ok(List(<<>>))
        ELSE parsed_list

\* the inner try of extract_and_validate_list: json.loads and the list test
ParsedList(raw) ==
    LET parsed_list == json_loads(raw)
    IN  IF parsed_list.ok
        THEN IF parsed_list.v.t = "list" THEN Ok(parsed_list.v) ELSE Ok(List(<<>>))
        ELSE IF parsed_list.exc = "JSONDecodeError" THEN Ok(List(<<>>))
        ELSE parsed_list

\* the list parsed from the validated output instead of the raw output
GuardedListValidated(o, g) ==
    LET resp == guard(o, g)
    IN  IF ~resp.ok THEN Ok(List(<<>>))
        ELSE LET r == ParsedList(resp.v.validated_output)
             IN  IF r.ok THEN r ELSE Ok(List(<<>>))

\* extract_and_validate_list(text_data, list_description, item_schema): the outer try
GuardedList(o, g) ==
    LET resp == guard(o, g)
    IN  IF ~resp.ok THEN Ok(List(<<>>))              \* except Exception
        ELSE LET r == ParsedList(resp.v.raw_llm_output)
             IN  IF r.ok THEN r ELSE Ok(List(<<>>))      \* except Exception

\* one call of the Guardrails extract_and_validate_field
FieldGuard ==
    /\ pc = "g_field"
    /\ \E o \in Answers(LLMOutcomes), g \in Verdicts :
          LET r == GuardedField(o, g)
          IN  /\ calls' = calls + 1
              /\ failed_call' = (o.kind = "raise")
              /\ response' = guard(o, g)
              /\ IF r.ok THEN ret' = r.v /\ pc' = "ret"
                 ELSE ret' = ret /\ pc' = "crashed"
    /\ UNCHANGED <<walkVars, groundVars, restVars, field_description, expected_type,
                   max_retries, attempt, extracted_value, checks, guard_fail,
                   conv_fail, callee>>

\* one call of extract_and_validate_list
ListGuard ==
    /\ pc = "g_list"
    /\ \E o \in Answers(ListOutcomes), g \in Verdicts :
          LET r == GuardedList(o, g)
          IN  /\ calls' = calls + 1
              /\ failed_call' = (o.kind = "raise")
              /\ response' = guard(o, g)
              /\ IF r.ok THEN ret' = r.v /\ pc' = "ret"
                 ELSE ret' = ret /\ pc' = "crashed"
    /\ UNCHANGED <<walkVars, groundVars, restVars, field_description, expected_type,
                   max_retries, attempt, extracted_value, checks, guard_fail,
                   conv_fail, callee>>

(***************************************************************************)
(* Schemas and output trees.  A tree is a map from key paths to nodes: the *)
(* root dict at <<>>, a dict node Dict(keys) with its keys in insertion    *)
(* order, and every other node a value.                                    *)
(***************************************************************************)
Leaf(d)      == [t |-> "str", d |-> d]            \* a type name or a description
ListOf(tmpl) == [t |-> "list", items |-> <<tmpl>>]

\* the schema language of script_without_anything.py: dicts and type names
PlainSchemaA ==
    (<<>> :> Dict(<<"city", "rates", "hazardous">>))
    @@ (<<"city">> :> Leaf("string"))
    @@ (<<"rates">> :> Dict(<<"base_rate">>))
    @@ (<<"rates", "base_rate">> :> Leaf("number"))
    @@ (<<"hazardous">> :> Leaf("boolean"))

PlainSchemaB ==
    (<<>> :> Dict(<<"dimensions", "others">>))
    @@ (<<"dimensions">> :> Dict(<<"dimension_1">>))
    @@ (<<"dimensions", "dimension_1">> :> Dict(<<"length">>))
    @@ (<<"dimensions", "dimension_1", "length">> :> Leaf("number"))
    @@ (<<"others">> :> Dict(<<>>))

\* the schema language of script_with_ProvenanceLLM.py: dicts, descriptions
\* and one-template lists
GuardSchemaA ==
    (<<>> :> Dict(<<"language", "rates">>))
    @@ (<<"language">> :> Leaf("Language of the text"))
    @@ (<<"rates">> :> Dict(<<"base_rate", "starboard_rates">>))
    @@ (<<"rates", "base_rate">> :> Leaf("Base Rate"))
    @@ (<<"rates", "starboard_rates">> :> ListOf(Leaf("Starboard Rate")))

GuardSchemaB ==
    (<<>> :> Dict(<<"dimensions", "others">>))
    @@ (<<"dimensions">> :> ListOf(Dict(<<"length">>)))
    @@ (<<"others">> :> Dict(<<"piece_count">>))
    @@ (<<"others", "piece_count">> :> Leaf("Piece Count"))

Schemas(s) ==
    IF s = "plain" THEN {PlainSchemaA, PlainSchemaB} ELSE {GuardSchemaA, GuardSchemaB}

IsPrefix(p, q) == Len(p) <= Len(q) /\ SubSeq(q, 1, Len(p)) = p

\* tree[p][key] = v: the key is added to the dict at p if it is new, and
\* whatever was below the old value is gone
SetItem(tree, p, key, v) ==
    LET c    == p \o <<key>>
        kept == {q \in DOMAIN tree : q = c \/ ~IsPrefix(c, q)} \cup {c}
        dict == IF \E n \in 1..Len(tree[p].keys) : tree[p].keys[n] = key
                THEN tree[p]
                ELSE [tree[p] EXCEPT !.keys = Append(@, key)]
    IN  [q \in kept |-> IF q = c THEN v ELSE IF q = p THEN dict ELSE tree[q]]

(***************************************************************************)
(* populate_data, of process_text_to_json and process_text_field_by_field. *)
(* A frame [path, i] is one activation: the dict being iterated and the    *)
(* index of its current key.                                               *)
(***************************************************************************)
DefaultMaxRetries == 3

Top   == stack[Len(stack)]
Keys  == json_schema[Top.path].keys
HasKey == Top.i <= Len(Keys)
Key   == Keys[Top.i]
Child == Top.path \o <<Key>>
Value == json_schema[Child]

\* the branch populate_data takes for a schema value
Branch(value) ==
    IF script = "guard" /\ value.t = "list" /\ value.items # <<>> THEN "list"
    ELSE IF value.t = "dict" THEN "dict"
    ELSE "field"

NextKey(stk) == [stk EXCEPT ![Len(stk)].i = @ + 1]

\* if not client: raise ConnectionError(...)
RaiseConnectionError ==
    /\ pc = "start"
    /\ script = "plain"
    /\ client = "None"
    /\ pc' = "ConnectionError"
    /\ UNCHANGED <<walkVars, fieldVars, groundVars, restVars>>

\* output_data = {}; populate_data(json_schema, output_data)
Start ==
    /\ pc = "start"
    /\ ~(script = "plain" /\ client = "None")
    /\ output_data' = (<<>> :> Dict(<<>>))
    /\ stack' = <<[path |-> <<>>, i |-> 1]>>
    /\ pc' = "walk"
    /\ UNCHANGED <<script, client, mock, text_data, json_schema, visited, fieldVars,
                   groundVars, restVars>>

\* output_level[key] = {}; populate_data(value, output_level[key], ...)
Recurse ==
    /\ pc = "walk"
    /\ HasKey
    /\ Branch(Value) = "dict"
    /\ output_data' = SetItem(output_data, Top.path, Key, Dict(<<>>))
    /\ stack' = Append(stack, [path |-> Child, i |-> 1])
    /\ UNCHANGED <<script, client, mock, text_data, json_schema, visited, fieldVars,
                   groundVars, restVars, pc>>

\* the attempts of the leaf before count against this leaf
CallFieldKeepsAttempt ==
    /\ pc = "walk"
    /\ HasKey
    /\ Branch(Value) = "field"
    /\ visited' = Append(visited, Child)
    /\ callee' = "extract_and_validate_field"
    /\ field_description' = IF script = "plain" THEN Child ELSE <<Value>>
    /\ expected_type' = IF script = "plain" THEN Value.d ELSE "n/a"
    /\ max_retries' = DefaultMaxRetries
    /\ attempt' = attempt
    /\ extracted_value' = <<>>
    /\ ret' = None
    /\ response' = None
    /\ calls' = 0
    /\ checks' = 0
    /\ guard_fail' = 0
    /\ conv_fail' = 0
    /\ failed_call' = FALSE
    /\ pc' = IF script = "plain" THEN "loop" ELSE "g_field"
    /\ UNCHANGED <<script, client, mock, text_data, json_schema, output_data, stack,
                   groundVars, restVars>>

\* the call extract_and_validate_field(...) for a scalar leaf
CallField ==
    /\ pc = "walk"
    /\ HasKey
    /\ Branch(Value) = "field"
    /\ visited' = Append(visited, Child)
    /\ callee' = "extract_and_validate_field"
    /\ field_description' = IF script = "plain" THEN Child ELSE <<Value>>
    /\ expected_type' = IF script = "plain" THEN Value.d ELSE "n/a"
    /\ max_retries' = DefaultMaxRetries
    /\ attempt' = 0
    /\ extracted_value' = <<>>
    /\ ret' = None
    /\ response' = None
    /\ calls' = 0
    /\ checks' = 0
    /\ guard_fail' = 0
    /\ conv_fail' = 0
    /\ failed_call' = FALSE
    /\ pc' = IF script = "plain" THEN "loop" ELSE "g_field"
    /\ UNCHANGED <<script, client, mock, text_data, json_schema, output_data, stack,
                   groundVars, restVars>>

\* the call extract_and_validate_list(text_data, list_description, value[0])
CallList ==
    /\ pc = "walk"
    /\ HasKey
    /\ Branch(Value) = "list"
    /\ visited' = Append(visited, Child)
    /\ callee' = "extract_and_validate_list"
    /\ field_description' = <<Value.items[1]>>
    /\ expected_type' = "n/a"
    /\ max_retries' = DefaultMaxRetries
    /\ attempt' = 0
    /\ extracted_value' = <<>>
    /\ ret' = None
    /\ response' = None
    /\ calls' = 0
    /\ checks' = 0
    /\ guard_fail' = 0
    /\ conv_fail' = 0
    /\ failed_call' = FALSE
    /\ pc' = "g_list"
    /\ UNCHANGED <<script, client, mock, text_data, json_schema, output_data, stack,
                   groundVars, restVars>>

\* the key stored only when the extractor returned something
StoreLeafSkipsNone ==
    /\ pc = "ret"
    /\ stack # <<>>
    /\ output_data' = IF ret = None THEN output_data
                      ELSE SetItem(output_data, Top.path, Key, ret)
    /\ stack' = NextKey(stack)
    /\ pc' = "walk"
    /\ UNCHANGED <<script, client, mock, text_data, json_schema, visited, fieldVars,
                   groundVars, restVars>>

\* output_level[key] = <what the extractor returned>
StoreLeaf ==
    /\ pc = "ret"
    /\ stack # <<>>
    /\ output_data' = SetItem(output_data, Top.path, Key, ret)
    /\ stack' = NextKey(stack)
    /\ pc' = "walk"
    /\ UNCHANGED <<script, client, mock, text_data, json_schema, visited, fieldVars,
                   groundVars, restVars>>

\* the for loop of an activation is over: return to the caller
ReturnLevel ==
    /\ pc = "walk"
    /\ ~HasKey
    /\ IF Len(stack) = 1
       THEN /\ stack' = <<>>
            /\ pc' = "done"                      \* return output_data
       ELSE /\ stack' = NextKey(SubSeq(stack, 1, Len(stack) - 1))
            /\ pc' = "walk"
    /\ UNCHANGED <<script, client, mock, text_data, json_schema, output_data, visited,
                   fieldVars, groundVars, restVars>>

populate_data ==
    \/ Recurse
    \/ CallField
    \/ CallList
    \/ StoreLeaf
    \/ ReturnLevel

(***************************************************************************)
(* process_text_to_json(text_data) and process_text_field_by_field(        *)
(* text_data) on every document and schema drawn above.                    *)
(***************************************************************************)
Init ==
    /\ script \in {"plain", "guard"}
    /\ client \in IF script = "plain" THEN {"ok", "None"} ELSE {"ok"}
    /\ text_data \in Docs
    /\ json_schema \in Schemas(script)
    /\ output_data = <<>>
    /\ stack = <<>>
    /\ visited = <<>>
    /\ pc = "start"
    /\ field_description = <<>>
    /\ expected_type = "n/a"
    /\ max_retries = DefaultMaxRetries
    /\ attempt = 0
    /\ extracted_value = <<>>
    /\ ret = None
    /\ response = None
    /\ callee = "none"
    /\ calls = 0
    /\ checks = 0
    /\ guard_fail = 0
    /\ conv_fail = 0
    /\ failed_call = FALSE
    /\ NoGround
    /\ mock = None
    /\ NoValidators
    /\ NoApp
    /\ NoCoerce

Next ==
    \/ RaiseConnectionError
    \/ Start
    \/ populate_data
    \/ extract_and_validate_field
    \/ FieldGuard
    \/ ListGuard

Spec == Init /\ [][Next]_vars

(***************************************************************************)
(* The substring grounding check on its own: the guardrail of              *)
(* script_without_anything.py and validate_fields_against_source of        *)
(* Scripts/script_with_JP.py, on every candidate and document over a small *)
(* alphabet.                                                               *)
(***************************************************************************)
GroundAlphabet == {"a", "A", "b"}

StringsUpTo(n) == UNION {[1..k -> GroundAlphabet] : k \in 0..n}

LanguageKey == <<"l","a","n","g","u","a","g","e">>

\* value.lower() not in source_text.lower()
NotInSource(value, source_text) == ~PyIn(PyLower(value), PyLower(source_text))

\* the unverified_fields of validate_fields_against_source(data, source_text),
\* data a dict
RECURSIVE UnverifiedFields(_, _)
RECURSIVE UnverifiedItems(_, _)

\* for item in value
UnverifiedItems(items, source_text) ==
    IF items = <<>> THEN <<>>
    ELSE LET item == Head(items)
             here == IF item.t = "dict" THEN UnverifiedFields(item, source_text)
                     ELSE IF item.t = "str" /\ NotInSource(item.s, source_text)
                     THEN <<item.s>>
                     ELSE <<>>
         IN  here \o UnverifiedItems(Tail(items), source_text)

\* for key, value in data_dict.items()
UnverifiedFields(data, source_text) ==
    IF data.keys = <<>> THEN <<>>
    ELSE LET key   == Head(data.keys)
             value == Head(data.vals)
             here  == IF key = LanguageKey THEN <<>>
                      ELSE IF value.t = "None" THEN <<>>
                      ELSE IF value.t = "dict" THEN UnverifiedFields(value, source_text)
                      ELSE IF value.t = "list" THEN UnverifiedItems(value.items, source_text)
                      ELSE IF value.t = "str" /\ NotInSource(value.s, source_text)
                      THEN <<value.s>>
                      ELSE <<>>
         IN  here \o UnverifiedFields(JDict(Tail(data.keys), Tail(data.vals)),
                                      source_text)

\* return not unverified_fields, unverified_fields
validate_fields_against_source(data, source_text) ==
    LET unverified_fields == UnverifiedFields(data, source_text)
    IN  [is_valid |-> unverified_fields = <<>>, unverified |-> unverified_fields]

\* the validated structures the candidate is placed in
KeyF == <<"f">>
KeyG == <<"g">>
DataShapes(v) == {
    JDict(<<KeyF>>, <<Str(v)>>),
    JDict(<<KeyF, KeyG>>, <<None, Str(v)>>),
    JDict(<<KeyF, KeyG>>, <<IntV(12), List(<<Str(v)>>)>>),
    JDict(<<KeyF>>, <<JDict(<<KeyG>>, <<Str(v)>>)>>),
    JDict(<<KeyF>>, <<List(<<JDict(<<KeyG>>, <<Str(v)>>)>>)>>),
    JDict(<<LanguageKey>>, <<Str(v)>>) }

\* if extracted_value.lower() in text_data.lower()
CheckGuardrail ==
    /\ pc = "ground"
    /\ verdict' = [site |-> "guardrail",
                   supported |-> IsGroundedIn(candidate, text_data)]
    /\ pc' = "checked"
    /\ UNCHANGED <<walkVars, fieldVars, restVars, candidate, validated_data>>

\* validate_fields_against_source(validated_structure, text_data)
CheckFields ==
    /\ pc = "ground"
    /\ \E d \in DataShapes(candidate) :
          /\ validated_data' = d
          /\ verdict' = [site |-> "validate"]
                        @@ validate_fields_against_source(d, text_data)
    /\ pc' = "checked"
    /\ UNCHANGED <<walkVars, fieldVars, restVars, candidate>>

InitGround ==
    /\ script = "plain"
    /\ client = "ok"
    /\ text_data \in StringsUpTo(MaxDocLen)
    /\ candidate \in StringsUpTo(MaxCandLen)
    /\ validated_data = None
    /\ verdict = None
    /\ pc = "ground"
    /\ json_schema = <<>>
    /\ output_data = <<>>
    /\ stack = <<>>
    /\ visited = <<>>
    /\ field_description = <<>>
    /\ expected_type = "n/a"
    /\ max_retries = DefaultMaxRetries
    /\ attempt = 0
    /\ extracted_value = <<>>
    /\ ret = None
    /\ response = None
    /\ callee = "none"
    /\ calls = 0
    /\ checks = 0
    /\ guard_fail = 0
    /\ conv_fail = 0
    /\ failed_call = FALSE
    /\ mock = None
    /\ NoValidators
    /\ NoApp
    /\ NoCoerce

NextGround == CheckGuardrail \/ CheckFields

SpecGround == InitGround /\ [][NextGround]_vars

(***************************************************************************)
(* Scripts/script_with_JP.py: process_text_with_validators.  One guard     *)
(* call is one entry of queries, whatever re-asks the library makes        *)
(* inside it.                                                              *)
(***************************************************************************)
\* "Not a relavent email."
NotRelevant ==
    <<"N","o","t"," ","a"," ","r","e","l","a","v","e","n","t"," ","e","m",
      "a","i","l",".">>

\* "Guardrails validation failed."
ValidationFailed ==
    <<"G","u","a","r","d","r","a","i","l","s"," ","v","a","l","i","d","a",
      "t","i","o","n"," ","f","a","i","l","e","d",".">>

\* "'NoneType' object has no attribute 'get'"
NoneHasNoGet ==
    <<"'","N","o","n","e","T","y","p","e","'"," ","o","b","j","e","c","t",
      " ","h","a","s"," ","n","o"," ","a","t","t","r","i","b","u","t","e",
      " ","'","g","e","t","'">>

\* the message of the ValueError of line 154
StructuralFailed ==
    <<"S","t","r","u","c","t","u","r","a","l"," ","v","a","l","i","d","a",
      "t","i","o","n"," ","f","a","i","l","e","d","."," ","T","h","e"," ",
      "L","L","M"," ","o","u","t","p","u","t"," ","d","i","d"," ","n","o",
      "t"," ","m","a","t","c","h"," ","t","h","e"," ","P","y","d","a","n",
      "t","i","c"," ","s","c","h","e","m","a",".">>

GateYes ==
    <<"{","\"","p","r","o","c","c","e","s","s","\"",":"," ","t","r","u","e",
      "}">>

GateNo ==
    <<"{","\"","p","r","o","c","c","e","s","s","\"",":"," ","f","a","l","s",
      "e","}">>

GateBare ==
    <<"T","r","u","e">>

JsonEmpty ==
    <<"{","}">>

NotJson ==
    <<"n","o","t"," ","j","s","o","n">>

StructRates ==
    <<"{","\"","r","a","t","e","s","\"",":"," ","{","\"","b","a","s","e",
      "_","r","a","t","e","\"",":"," ","1",".","5","}","}">>

StructNulls ==
    <<"{","\"","l","a","n","g","u","a","g","e","\"",":"," ","n","u","l","l",
      "}">>

Proccess    == <<"p","r","o","c","c","e","s","s">>
ErrorKey    == <<"e","r","r","o","r">>
DetailsKey  == <<"d","e","t","a","i","l","s">>
ShipmentKey == <<"s","h","i","p","m","e","n","t">>
RatesKey    == <<"r","a","t","e","s">>

\* the answers of the model to the classification prompt
GateOutcomes ==
    {[kind |-> "content", text |-> c] :
        c \in {GateYes, GateNo, GateBare, JsonEmpty, NotJson}}
    \cup {[kind |-> "none"], [kind |-> "raise"]}

\* the answers of the model to the extraction prompt
StructureOutcomes ==
    {[kind |-> "content", text |-> c] :
        c \in {StructRates, StructNulls, JsonEmpty, NA}}
    \cup {[kind |-> "none"], [kind |-> "raise"]}

\* the fields of the output classes with their defaults
FieldDefaults(output_class) ==
    IF output_class = "EmailType"
    THEN JDict(<<Proccess>>, <<Bool(FALSE)>>)
    ELSE JDict(<<LanguageKey, ShipmentKey, RatesKey>>, <<None, None, None>>)

\* d with the fields of defaults it lacks
RECURSIVE WithDefaults(_, _)
WithDefaults(d, defaults) ==
    IF defaults.keys = <<>> THEN d
    ELSE LET k    == Head(defaults.keys)
             rest == JDict(Tail(defaults.keys), Tail(defaults.vals))
             set  == IF \E n \in 1..Len(d.keys) : d.keys[n] = k
                     THEN d
                     ELSE JDict(Append(d.keys, k), Append(d.vals, Head(defaults.vals)))
         IN  WithDefaults(set, rest)

\* What Guard.for_pydantic(output_class=...) makes of a raw output is the
\* library's: the parsed object, the parsed object with the defaults of the
\* missing fields, nothing, or an exception.  An output that is not a JSON
\* object validates to nothing.
PydanticVerdicts == {"pass", "filled", "none", "raise"}

\* guard(call_gemini_with_prompt, model=..., messages=...)
guard_for_pydantic(output_class, o, g) ==
    LET called == call_gemini_with_prompt(o)
        parsed == json_loads(called.v)
        object == parsed.ok /\ parsed.v.t = "dict"
    IN  IF g = "raise" THEN Raise("ValidationError")
        ELSE Ok([raw_llm_output |-> called.v,
                 validated_output |->
                     IF g = "pass" /\ object THEN parsed.v
                     ELSE IF g = "filled" /\ object
                     THEN WithDefaults(parsed.v, FieldDefaults(output_class))
                     ELSE None])

\* d.get(key)
PyGet(d, key) ==
    IF d.t # "dict" THEN Raise("AttributeError")
    ELSE IF \E n \in 1..Len(d.keys) : d.keys[n] = key
    THEN Ok(d.vals[CHOOSE n \in 1..Len(d.keys) : d.keys[n] = key])
    ELSE Ok(None)

\* bool(v)
PyTruthy(v) ==
    IF v.t = "None" THEN FALSE
    ELSE IF v.t = "bool" THEN v.b
    ELSE IF v.t = "str" THEN v.s # <<>>
    ELSE IF v.t \in {"int", "float"} THEN v.n # 0
    ELSE IF v.t = "dict" THEN v.keys # <<>>
    ELSE v.items # <<>>

\* str(e)
ExceptionText(exc) ==
    IF exc = "AttributeError" THEN NoneHasNoGet
    ELSE IF exc = "ValueError" THEN StructuralFailed
    ELSE IF exc = "ParseError" THEN <<"p","a","r","s","e">>
    ELSE <<"V","a","l","i","d","a","t","i","o","n","E","r","r","o","r">>

\* except Exception as e: return {"error": ..., "details": str(e)}
ErrorDict(exc) ==
    JDict(<<ErrorKey, DetailsKey>>, <<Str(ValidationFailed), Str(ExceptionText(exc))>>)

QueryRecord(output_class, o, g) ==
    [guard |-> output_class, answer |-> o, verdict |-> g,
     after_shutdown |-> executor # None /\ executor.shutdown]

\* the gate passes every document on to the extraction
CheckEmailAlwaysProceeds ==
    /\ pc = "v_gate"
    /\ \E o \in GateOutcomes, g \in PydanticVerdicts :
          LET response_email == guard_for_pydantic("EmailType", o, g)
          IN  /\ queries' = Append(queries, QueryRecord("EmailType", o, g))
              /\ validated_email' = IF response_email.ok
                                    THEN response_email.v.validated_output
                                    ELSE validated_email
              /\ pc' = "v_struct"
              /\ processed_data' = processed_data
    /\ UNCHANGED <<walkVars, fieldVars, groundVars, appVars, coerceVars,
                   validated_structure>>

\* Step 0: the relevance check, lines 115-131, with the except clause
CheckEmail ==
    /\ pc = "v_gate"
    /\ \E o \in GateOutcomes, g \in PydanticVerdicts :
          LET response_email == guard_for_pydantic("EmailType", o, g)
              got == IF response_email.ok
                     THEN PyGet(response_email.v.validated_output, Proccess)
                     ELSE response_email
          IN  /\ queries' = Append(queries, QueryRecord("EmailType", o, g))
              /\ validated_email' = IF response_email.ok
                                    THEN response_email.v.validated_output
                                    ELSE validated_email
              /\ IF ~got.ok
                 THEN /\ processed_data' = ErrorDict(got.exc)
                      /\ pc' = "v_ret"
                 ELSE IF ~PyTruthy(got.v)
                 THEN /\ processed_data' = Str(NotRelevant)
                      /\ pc' = "v_ret"
                 ELSE /\ processed_data' = processed_data
                      /\ pc' = "v_struct"
    /\ UNCHANGED <<walkVars, fieldVars, groundVars, appVars, coerceVars,
                   validated_structure>>

\* no except clause: a failed extraction raises into the worker, whose
\* except clause sets the status 'error'
StructuredExtractionRaises ==
    /\ pc = "v_struct"
    /\ \E o \in StructureOutcomes, g \in PydanticVerdicts :
          LET resp == guard_for_pydantic("ExpectedOutput", o, g)
              checked == IF ~resp.ok THEN resp
                         ELSE IF ~PyTruthy(resp.v.validated_output)
                         THEN Raise("ValueError")
                         ELSE Ok(resp.v.validated_output)
          IN  /\ queries' = Append(queries, QueryRecord("ExpectedOutput", o, g))
              /\ validated_structure' = IF resp.ok THEN resp.v.validated_output
                                        ELSE validated_structure
              /\ processed_data' = IF checked.ok THEN checked.v ELSE processed_data
              /\ pc' = IF checked.ok \/ filename = "" THEN "v_ret" ELSE "w_error"
              /\ PROCESSING_CACHE' =
                     IF checked.ok \/ filename = "" THEN PROCESSING_CACHE
                     ELSE [PROCESSING_CACHE EXCEPT ![filename].status = "error"]
    /\ UNCHANGED <<walkVars, fieldVars, groundVars, coerceVars, validated_email,
                   email_files, executor, main_pc, idx, filename, request, reply,
                   submitted, begun>>

\* Step 1: the structured extraction, lines 135-165, with the except clause
StructuredExtraction ==
    /\ pc = "v_struct"
    /\ \E o \in StructureOutcomes, g \in PydanticVerdicts :
          LET resp == guard_for_pydantic("ExpectedOutput", o, g)
              checked == IF ~resp.ok THEN resp
                         ELSE IF ~PyTruthy(resp.v.validated_output)
                         THEN Raise("ValueError")
                         ELSE Ok(resp.v.validated_output)
          IN  /\ queries' = Append(queries, QueryRecord("ExpectedOutput", o, g))
              /\ validated_structure' = IF resp.ok THEN resp.v.validated_output
                                        ELSE validated_structure
              /\ processed_data' = IF checked.ok THEN checked.v
                                   ELSE ErrorDict(checked.exc)
              /\ pc' = "v_ret"
    /\ UNCHANGED <<walkVars, fieldVars, groundVars, appVars, coerceVars,
                   validated_email>>

process_text_with_validators ==
    \/ CheckEmail
    \/ StructuredExtraction

\* no walk and no extractor call is under way
NoWalk ==
    /\ script = "plain"
    /\ client = "ok"
    /\ mock = None
    /\ json_schema = <<>>
    /\ output_data = <<>>
    /\ stack = <<>>
    /\ visited = <<>>
    /\ field_description = <<>>
    /\ expected_type = "n/a"
    /\ max_retries = DefaultMaxRetries
    /\ attempt = 0
    /\ extracted_value = <<>>
    /\ ret = None
    /\ response = None
    /\ callee = "none"
    /\ calls = 0
    /\ checks = 0
    /\ guard_fail = 0
    /\ conv_fail = 0
    /\ failed_call = FALSE

\* one call process_text_with_validators(text_data)
InitValidators ==
    /\ text_data \in Docs
    /\ pc = "v_gate"
    /\ NoWalk
    /\ NoGround
    /\ NoValidators
    /\ NoApp
    /\ NoCoerce

NextValidators == process_text_with_validators

SpecValidators == InitValidators /\ [][NextValidators]_vars

(***************************************************************************)
(* app.py: the results cache, the pool, the worker and the route           *)
(* /api/email/<filename>.  The pool has MAX_WORKERS = 1 worker thread,     *)
(* whose position is pc; the main thread's is main_pc.  The routes that    *)
(* only list the statuses are left out.                                    *)
(***************************************************************************)
MAX_WORKERS == 1

MaxFiles == 2                     \* files in EMAIL_DIR

FileNames == <<"a.eml", "b.msg", "c.eml", "d.msg">>

Files == {FileNames[k] : k \in 1..MaxFiles}

\* [f for f in os.listdir(EMAIL_DIR) if f.endswith((".eml", ".msg"))]:
\* each file of the directory once, in the order the system lists them (the
\* names are interchangeable: one order for each number of files)
Listings ==
    {SubSeq(FileNames, 1, n) : n \in 0..MaxFiles}

\* {'status': 'processing', 'content': None, 'processed': None}
NewEntry == [status |-> "processing", content |-> None, processed |-> None]

\* the email_data dictionary parse_email_file returns
EmailData == Dict(<<"subject", "from", "to", "date", "body">>)

\* {'error': str(e)} for the exception parse_email_file raised
ParseError == JDict(<<ErrorKey>>, <<Str(ExceptionText("ParseError"))>>)

Running == IF filename = "" THEN 0 ELSE 1

\* the for loop: if filename not in PROCESSING_CACHE: PROCESSING_CACHE[filename] = ...
Register ==
    /\ main_pc = "loop"
    /\ idx < Len(email_files)
    /\ IF email_files[idx + 1] \notin DOMAIN PROCESSING_CACHE
       THEN /\ PROCESSING_CACHE' = PROCESSING_CACHE @@ (email_files[idx + 1] :> NewEntry)
            /\ main_pc' = "submit"
            /\ idx' = idx
       ELSE /\ idx' = idx + 1
            /\ UNCHANGED <<PROCESSING_CACHE, main_pc>>
    /\ UNCHANGED <<walkVars, fieldVars, groundVars, jpVars, coerceVars, pc,
                   email_files, executor, filename, request, reply, submitted,
                   begun>>

\* executor.submit(process_email_in_background, filename)
Submit ==
    /\ main_pc = "submit"
    /\ executor' = [executor EXCEPT !.work_queue = Append(@, email_files[idx + 1])]
    /\ submitted' = Append(submitted, email_files[idx + 1])
    /\ idx' = idx + 1
    /\ main_pc' = "loop"
    /\ UNCHANGED <<walkVars, fieldVars, groundVars, jpVars, coerceVars, pc,
                   email_files, PROCESSING_CACHE, filename, request, reply, begun>>

\* the loop is over: app.run(debug=True)
RunServer ==
    /\ main_pc = "loop"
    /\ idx = Len(email_files)
    /\ main_pc' = "serve"
    /\ UNCHANGED <<walkVars, fieldVars, groundVars, jpVars, coerceVars, pc,
                   email_files, PROCESSING_CACHE, executor, idx, filename,
                   request, reply, submitted, begun>>

\* SIGINT, handled in the main thread: executor.shutdown(wait=False), sys.exit(0)
shutdown_handler ==
    /\ main_pc \in {"loop", "submit", "serve"}
    /\ executor' = [executor EXCEPT !.shutdown = TRUE]
    /\ main_pc' = "exited"
    /\ UNCHANGED <<walkVars, fieldVars, groundVars, jpVars, coerceVars, pc,
                   email_files, PROCESSING_CACHE, idx, filename, request, reply,
                   submitted, begun>>

\* The pool's worker thread takes the next work item.  shutdown(wait=False)
\* without cancel_futures leaves the queued items in the queue, and the
\* interpreter joins the worker on exit: the items are still run.
TakeTask ==
    /\ pc = "idle"
    /\ Running < MAX_WORKERS
    /\ executor.work_queue # <<>>
    /\ filename' = Head(executor.work_queue)
    /\ executor' = [executor EXCEPT !.work_queue = Tail(@)]
    /\ begun' = Append(begun, [filename |-> Head(executor.work_queue),
                               after_shutdown |-> executor.shutdown])
    /\ pc' = "w_parse"
    /\ UNCHANGED <<walkVars, fieldVars, groundVars, jpVars, coerceVars,
                   email_files, PROCESSING_CACHE, main_pc, idx, request, reply,
                   submitted>>

\* a failed parse puts the file back in the queue
ParseEmailRetries ==
    /\ pc = "w_parse"
    /\ \E parsed \in BOOLEAN :
          IF parsed
          THEN /\ PROCESSING_CACHE' =
                      [PROCESSING_CACHE EXCEPT ![filename].content = EmailData]
               /\ pc' = "v_gate"
               /\ UNCHANGED <<executor, filename>>
          ELSE /\ executor' = [executor EXCEPT !.work_queue = Append(@, filename)]
               /\ filename' = ""
               /\ pc' = "idle"
               /\ UNCHANGED PROCESSING_CACHE
    /\ validated_email' = None
    /\ validated_structure' = None
    /\ queries' = <<>>
    /\ processed_data' = None
    /\ UNCHANGED <<walkVars, fieldVars, groundVars, coerceVars, email_files,
                   main_pc, idx, request, reply, submitted, begun>>

\* no except clause: the exception of the parse ends the task
ParseEmailUncaught ==
    /\ pc = "w_parse"
    /\ \E parsed \in BOOLEAN :
          IF parsed
          THEN /\ PROCESSING_CACHE' =
                      [PROCESSING_CACHE EXCEPT ![filename].content = EmailData]
               /\ pc' = "v_gate"
               /\ filename' = filename
          ELSE /\ PROCESSING_CACHE' = PROCESSING_CACHE
               /\ pc' = "idle"
               /\ filename' = ""
    /\ validated_email' = None
    /\ validated_structure' = None
    /\ queries' = <<>>
    /\ processed_data' = None
    /\ UNCHANGED <<walkVars, fieldVars, groundVars, coerceVars, email_files,
                   executor, main_pc, idx, request, reply, submitted, begun>>

\* email_content = parse_email_file(filepath);
\* PROCESSING_CACHE[filename]['content'] = email_content; the call of
\* process_text_with_validators; or, when the parse raises, the first
\* statement of the except clause
ParseEmail ==
    /\ pc = "w_parse"
    /\ \E parsed \in BOOLEAN :
          IF parsed
          THEN /\ PROCESSING_CACHE' =
                      [PROCESSING_CACHE EXCEPT ![filename].content = EmailData]
               /\ pc' = "v_gate"
          ELSE /\ PROCESSING_CACHE' =
                      [PROCESSING_CACHE EXCEPT ![filename].status = "error"]
               /\ pc' = "w_error"
    /\ validated_email' = None
    /\ validated_structure' = None
    /\ queries' = <<>>
    /\ processed_data' = None
    /\ UNCHANGED <<walkVars, fieldVars, groundVars, coerceVars, email_files,
                   executor, main_pc, idx, filename, request, reply, submitted,
                   begun>>

\* PROCESSING_CACHE[filename]['processed'] = {'error': str(e)}
StoreError ==
    /\ pc = "w_error"
    /\ PROCESSING_CACHE' = [PROCESSING_CACHE EXCEPT ![filename].processed = ParseError]
    /\ filename' = ""
    /\ pc' = "idle"
    /\ UNCHANGED <<walkVars, fieldVars, groundVars, jpVars, coerceVars,
                   email_files, executor, main_pc, idx, request, reply, submitted,
                   begun>>

\* the status set before the result is stored
StoreStatusFirst ==
    /\ pc = "v_ret"
    /\ filename # ""
    /\ PROCESSING_CACHE' = [PROCESSING_CACHE EXCEPT ![filename].status = "completed"]
    /\ pc' = "w_status"
    /\ validated_email' = None
    /\ validated_structure' = None
    /\ queries' = <<>>
    /\ processed_data' = None
    /\ UNCHANGED <<walkVars, fieldVars, groundVars, coerceVars, email_files,
                   executor, main_pc, idx, filename, request, reply, submitted,
                   begun>>

\* PROCESSING_CACHE[filename]['processed'] = processed_data
StoreProcessed ==
    /\ pc = "v_ret"
    /\ filename # ""
    /\ PROCESSING_CACHE' =
           [PROCESSING_CACHE EXCEPT ![filename].processed = processed_data]
    /\ pc' = "w_status"
    /\ validated_email' = None
    /\ validated_structure' = None
    /\ queries' = <<>>
    /\ processed_data' = None
    /\ UNCHANGED <<walkVars, fieldVars, groundVars, coerceVars, email_files,
                   executor, main_pc, idx, filename, request, reply, submitted,
                   begun>>

\* PROCESSING_CACHE[filename]['status'] = 'completed'
StoreStatus ==
    /\ pc = "w_status"
    /\ PROCESSING_CACHE' = [PROCESSING_CACHE EXCEPT ![filename].status = "completed"]
    /\ filename' = ""
    /\ pc' = "idle"
    /\ UNCHANGED <<walkVars, fieldVars, groundVars, jpVars, coerceVars,
                   email_files, executor, main_pc, idx, request, reply, submitted,
                   begun>>

process_email_in_background ==
    \/ ParseEmail
    \/ CheckEmail
    \/ StructuredExtraction
    \/ StoreProcessed
    \/ StoreStatus
    \/ StoreError

NotReady(name) == [filename |-> name, code |-> 404]

\* the test that only looks the filename up
NotServedIfKnown(name) == name \notin DOMAIN PROCESSING_CACHE

\* filename not in PROCESSING_CACHE or
\* PROCESSING_CACHE[filename]['status'] != 'completed'
NotServed(name) ==
    \/ name \notin DOMAIN PROCESSING_CACHE
    \/ PROCESSING_CACHE[name].status # "completed"

\* GET /api/email/<filename>: the test, and the 404 answer
get_email_content ==
    /\ main_pc = "serve"
    /\ request = None
    /\ \E name \in Files \cup {"unknown.eml"} :
          IF NotServed(name)
          THEN /\ reply' = NotReady(name)
               /\ request' = request
          ELSE /\ request' = [filename |-> name]
               /\ reply' = reply
    /\ UNCHANGED <<walkVars, fieldVars, groundVars, jpVars, coerceVars, pc,
                   email_files, PROCESSING_CACHE, executor, main_pc, idx,
                   filename, submitted, begun>>

\* cached_data = PROCESSING_CACHE[filename]; return jsonify({...})
ReturnContent ==
    /\ request # None
    /\ reply' = [filename  |-> request.filename,
                 code      |-> 200,
                 content   |-> PROCESSING_CACHE[request.filename].content,
                 processed |-> PROCESSING_CACHE[request.filename].processed]
    /\ request' = None
    /\ UNCHANGED <<walkVars, fieldVars, groundVars, jpVars, coerceVars, pc,
                   email_files, PROCESSING_CACHE, executor, main_pc, idx,
                   filename, submitted, begun>>

\* the main block: the pool is created, the handler registered, the
\* directory listed
InitApp ==
    /\ text_data = DocA
    /\ pc = "idle"
    /\ NoWalk
    /\ NoGround
    /\ NoValidators
    /\ NoCoerce
    /\ email_files \in Listings
    /\ PROCESSING_CACHE = <<>>
    /\ executor = [shutdown |-> FALSE, work_queue |-> <<>>]
    /\ main_pc = "loop"
    /\ idx = 0
    /\ filename = ""
    /\ request = None
    /\ reply = None
    /\ submitted = <<>>
    /\ begun = <<>>

NextApp ==
    \/ Register
    \/ Submit
    \/ RunServer
    \/ shutdown_handler
    \/ TakeTask
    \/ process_email_in_background
    \/ get_email_content
    \/ ReturnContent

SpecApp == InitApp /\ [][NextApp]_vars

\* app.py without SIGINT.  The main thread runs its loop to the end, and the
\* pool's worker thread is scheduled whenever it has a step to take: a parse
\* or a model call that is under way returns or raises.
NextAppRunning ==
    \/ Register
    \/ Submit
    \/ RunServer
    \/ TakeTask
    \/ process_email_in_background
    \/ get_email_content
    \/ ReturnContent

SpecAppRunning ==
    /\ InitApp
    /\ [][NextAppRunning]_vars
    /\ WF_vars(Register \/ Submit)
    /\ WF_vars(TakeTask \/ process_email_in_background)

(***************************************************************************)
(* The two walks with a mocked model: the answer to a query is a function  *)
(* of the description asked about.  The schemas are those of the scenario  *)
(* "city and pallets" in each script's schema language, with the keys of   *)
(* every object in each order.                                             *)
(***************************************************************************)
\* "Pickup in Dallas, TX. 3 pallets, count 12."
DallasDoc ==
    <<"P","i","c","k","u","p"," ","i","n"," ","D","a","l","l","a","s",",",
      " ","T","X","."," ","3"," ","p","a","l","l","e","t","s",","," ","c",
      "o","u","n","t"," ","1","2",".">>

Dallas == <<"D","a","l","l","a","s">>

\* [{"count": 12}]
PalletsArray ==
    <<"[","{","\"","c","o","u","n","t","\"",":"," ","1","2","}","]">>

CountKey == <<"c","o","u","n","t">>

\* {city: "City", pallets: [{count: ...}]} in the two orders of its keys
DallasSchema ==
    (<<>> :> Dict(<<"city", "pallets">>))
    @@ (<<"city">> :> Leaf("City"))
    @@ (<<"pallets">> :> ListOf(Dict(<<"count">>)))

DallasSchemaReversed ==
    [DallasSchema EXCEPT ![<<>>] = Dict(<<"pallets", "city">>)]

\* {city: string, cargo: {count: number, stackable: boolean}}
CargoSchema ==
    (<<>> :> Dict(<<"city", "cargo">>))
    @@ (<<"city">> :> Leaf("string"))
    @@ (<<"cargo">> :> Dict(<<"count", "stackable">>))
    @@ (<<"cargo", "count">> :> Leaf("number"))
    @@ (<<"cargo", "stackable">> :> Leaf("boolean"))

\* CargoSchema with the keys of its objects in each order
CargoSchemas ==
    {[CargoSchema EXCEPT ![<<>>] = Dict(r), ![<<"cargo">>] = Dict(c)] :
        r \in {<<"city", "cargo">>, <<"cargo", "city">>},
        c \in {<<"count", "stackable">>, <<"stackable", "count">>}}

E2ESchemas(s) ==
    IF s = "plain" THEN CargoSchemas ELSE {DallasSchema, DallasSchemaReversed}

Content(c) == [kind |-> "content", text |-> c]

\* what a mocked model may answer to a query about a scalar
MockFieldAnswers(s) ==
    IF s = "plain"
    THEN {Content(Dallas), Content(<<"1","2">>), Content(<<".">>),
          Content(<<"Y","e","s">>), Content(NA), [kind |-> "raise"]}
    ELSE {Content(Dallas), Content(NA), [kind |-> "raise"]}

\* what a mocked model may answer to a query about a list
MockListAnswers ==
    {Content(PalletsArray), Content(<<"n","o","t"," ","j","s","o","n">>),
     [kind |-> "raise"]}

\* the keys a mocked model is asked about
MockKeys(s) ==
    IF s = "plain" THEN {<<"city">>, <<"cargo", "count">>, <<"cargo", "stackable">>}
    ELSE {<<"City">>, <<"List">>}

Mock(f) == [t |-> "mock", of |-> f]

\* the mocked models whose answer, and the guard's verdict on it, is fixed
\* by the description
DeterministicMocks(s) ==
    IF s = "plain"
    THEN {Mock(f) : f \in [MockKeys(s) ->
             {[answer |-> a, verdicts |-> {"pass"}] : a \in MockFieldAnswers(s)}]}
    ELSE {Mock((<<"City">> :> [answer |-> a, verdicts |-> {g}])
               @@ (<<"List">> :> [answer |-> b, verdicts |-> {h}])) :
             a \in MockFieldAnswers(s), g \in GuardVerdicts,
             b \in MockListAnswers, h \in GuardVerdicts}

\* the model of the scenario: "Dallas" for the city, the array for the
\* pallets; the guard's verdicts are the library's, or known not to change
\* the city and not to raise on the pallets
DallasMocks ==
    {Mock((<<"City">> :> [answer |-> Content(Dallas), verdicts |-> c])
          @@ (<<"List">> :> [answer |-> Content(PalletsArray), verdicts |-> l])) :
        c \in {GuardVerdicts, {"pass"}},
        l \in {GuardVerdicts, GuardVerdicts \ {"raise"}}}

Mocks(s) ==
    DeterministicMocks(s) \cup (IF s = "guard" THEN DallasMocks ELSE {})

InitE2E ==
    /\ script \in {"plain", "guard"}
    /\ client \in IF script = "plain" THEN {"ok", "None"} ELSE {"ok"}
    /\ text_data = DallasDoc
    /\ json_schema \in E2ESchemas(script)
    /\ mock \in Mocks(script)
    /\ output_data = <<>>
    /\ stack = <<>>
    /\ visited = <<>>
    /\ pc = "start"
    /\ field_description = <<>>
    /\ expected_type = "n/a"
    /\ max_retries = DefaultMaxRetries
    /\ attempt = 0
    /\ extracted_value = <<>>
    /\ ret = None
    /\ response = None
    /\ callee = "none"
    /\ calls = 0
    /\ checks = 0
    /\ guard_fail = 0
    /\ conv_fail = 0
    /\ failed_call = FALSE
    /\ NoGround
    /\ NoValidators
    /\ NoApp
    /\ NoCoerce

SpecE2E == InitE2E /\ [][Next]_vars

(***************************************************************************)
(* script_without_anything.py, lines 85-87: the number coercion on its     *)
(* own, applied to a numeric-looking string and then to its own result.    *)
(***************************************************************************)
MaxNumLen == 3                    \* length of the numeric-looking strings

NumericAlphabet == {"0", "1", ",", "$", "."}

\* digits with optional ',' separators, '$' and at most one '.'
NumericLooking ==
    {x \in UNION {[1..k -> NumericAlphabet] : k \in 1..MaxNumLen} :
        /\ \E i \in 1..Len(x) : x[i] \in DOMAIN DigitVal
        /\ Cardinality({i \in 1..Len(x) : x[i] = "."}) <= 1}

\* cleaned_val = value.replace(",", "").replace("$", "")
\* float(cleaned_val) if '.' in cleaned_val else int(cleaned_val)
\* An int or a float has no attribute replace.
NumberCoercion(value) ==
    IF value.t = "str" THEN TypeConversion("number", value.s)
    ELSE Raise("AttributeError")

\* the coercion of the string
CoerceOnce ==
    /\ pc = "coerce"
    /\ coerced' = NumberCoercion(Str(extracted_value))
    /\ pc' = "coerced"
    /\ UNCHANGED <<walkVars, fieldVars, groundVars, jpVars, appVars, recoerced>>

\* the coercion of the number the first coercion returned
CoerceAgain ==
    /\ pc = "coerced"
    /\ coerced.ok
    /\ recoerced' = NumberCoercion(coerced.v)
    /\ pc' = "recoerced"
    /\ UNCHANGED <<walkVars, fieldVars, groundVars, jpVars, appVars, coerced>>

InitCoerce ==
    /\ extracted_value \in NumericLooking
    /\ pc = "coerce"
    /\ script = "plain"
    /\ client = "ok"
    /\ mock = None
    /\ text_data = DocA
    /\ json_schema = <<>>
    /\ output_data = <<>>
    /\ stack = <<>>
    /\ visited = <<>>
    /\ field_description = <<>>
    /\ expected_type = "number"
    /\ max_retries = DefaultMaxRetries
    /\ attempt = 0
    /\ ret = None
    /\ response = None
    /\ callee = "none"
    /\ calls = 0
    /\ checks = 0
    /\ guard_fail = 0
    /\ conv_fail = 0
    /\ failed_call = FALSE
    /\ NoGround
    /\ NoValidators
    /\ NoApp
    /\ NoCoerce

NextCoerce ==
    \/ CoerceOnce
    \/ CoerceAgain

SpecCoerce == InitCoerce /\ [][NextCoerce]_vars

(***************************************************************************)
(* Definitions the properties are stated with.                             *)
(***************************************************************************)
\* sub occurs in s as a contiguous block, compared case-insensitively
ContainsCI(sub, s) ==
    \E i \in 0..(Len(s) - Len(sub)) :
        \A k \in 1..Len(sub) : LowerCh(s[i + k]) = LowerCh(sub[k])

\* the shape of a schema or output node: an object with its key set, a
\* list, or a scalar
NodeShape(n) ==
    IF n.t = "dict" THEN [kind |-> "object", keys |-> {n.keys[k] : k \in 1..Len(n.keys)}]
    ELSE IF n.t = "list" THEN [kind |-> "list", keys |-> {}]
    ELSE [kind |-> "scalar", keys |-> {}]

Shape(tree) == [p \in DOMAIN tree |-> NodeShape(tree[p])]

\* the leaves of a schema in the order of its keys
RECURSIVE LeavesUnder(_, _)
RECURSIVE LeavesOfKeys(_, _, _)
LeavesUnder(schema, p) ==
    IF schema[p].t = "dict" THEN LeavesOfKeys(schema, p, schema[p].keys) ELSE <<p>>
LeavesOfKeys(schema, p, ks) ==
    IF ks = <<>> THEN <<>>
    ELSE LeavesUnder(schema, p \o <<Head(ks)>>) \o LeavesOfKeys(schema, p, Tail(ks))

IsJsonArray(raw) == json_loads(raw).ok /\ json_loads(raw).v.t = "list"

Returned == pc = "ret"

\* the extraction of the current leaf failed: sentinel, retries used up,
\* failed client call, failed guard, malformed list answer
LeafFailed ==
    IF script = "plain"
    THEN extracted_value = NA \/ attempt = max_retries
    ELSE \/ failed_call
         \/ ~response.ok
         \/ /\ callee = "extract_and_validate_list"
            /\ ~IsJsonArray(response.v.raw_llm_output)
         \/ /\ callee = "extract_and_validate_field"
            /\ response.v.validated_output = Str(NA)

(***************************************************************************)
(* C1: when the walk returns, the output tree has exactly the key paths of *)
(* the schema, and at each path an object with the same key set where the  *)
(* schema has an object, a sequence where it has a list, and a value or    *)
(* null where it has a scalar, whatever the leaves' extractions gave.      *)
(***************************************************************************)
C1_ShapePreserved ==
    pc = "done" => Shape(output_data) = Shape(json_schema)

\* a finished Guardrails walk with a null scalar and an empty list
C1_Witness ==
    /\ pc = "done"
    /\ script = "guard"
    /\ \E p \in DOMAIN output_data : output_data[p] = None
    /\ \E p \in DOMAIN output_data : output_data[p] = List(<<>>)
    /\ \E p \in DOMAIN output_data : output_data[p].t = "str"

(***************************************************************************)
(* C2: a value other than null returned by extract_and_validate_field      *)
(* comes from an attempt whose raw answer occurs, case-insensitively, in   *)
(* the document.                                                           *)
(***************************************************************************)
C2_ReturnedValueGrounded ==
    (Returned /\ ret # None) => ContainsCI(extracted_value, text_data)

\* a value returned on a later attempt, grounded only up to case
C2_Witness ==
    /\ Returned
    /\ ret # None
    /\ attempt > 0
    /\ ~PyIn(extracted_value, text_data)

(***************************************************************************)
(* C3: one call of extract_and_validate_field issues at most max_retries   *)
(* model queries.                                                          *)
(***************************************************************************)
C3_RetryBound == calls <= max_retries

\* all the queries used, over ungrounded answers and conversion failures
C3_Witness ==
    /\ Returned
    /\ calls = max_retries
    /\ guard_fail > 0
    /\ conv_fail > 0

(***************************************************************************)
(* C4: when every query issued was answered by a value that is not the     *)
(* sentinel and that the guardrail rejected, the result is null and        *)
(* exactly max_retries queries were issued.                                *)
(***************************************************************************)
C4_AllRejected ==
    (Returned /\ guard_fail = calls) => (ret = None /\ calls = max_retries)

C4_Witness ==
    /\ Returned
    /\ guard_fail = calls
    /\ calls = DefaultMaxRetries

(***************************************************************************)
(* C5: on the answer "N/A" the extractor returns null at once: its next    *)
(* step returns None with no guardrail evaluation and no further query,    *)
(* so every evaluation made belongs to an earlier attempt.                 *)
(***************************************************************************)
C5_SentinelReturnsAtOnce ==
    /\ [][(pc = "got" /\ extracted_value = NA)
            => (pc' = "ret" /\ ret' = None /\ checks' = checks /\ calls' = calls)]_vars
    /\ [][Returned => calls' = calls]_vars
    /\ []((Returned /\ extracted_value = NA)
            => (ret = None /\ checks = calls - 1 /\ calls = attempt + 1))

\* the sentinel on the first attempt: null, and no guardrail evaluation at all
C5_Witness ==
    /\ Returned
    /\ extracted_value = NA
    /\ ~failed_call
    /\ ret = None
    /\ calls = 1
    /\ checks = 0

(***************************************************************************)
(* C6: a grounded answer that fails the type conversion leads to the next  *)
(* iteration, not to a return; a step from the head of the loop with       *)
(* attempts left is a query; null without the sentinel is returned only    *)
(* once the attempts are used up; and a value is returned only from an     *)
(* attempt whose answer is grounded and converts to it.                    *)
(***************************************************************************)
C6_ConversionFailureRetried ==
    /\ [][(pc = "convert" /\ ~TypeConversion(expected_type, extracted_value).ok)
            => (pc' = "loop" /\ attempt' = attempt + 1 /\ ret' = ret)]_vars
    /\ [][(pc = "loop" /\ attempt < max_retries)
            => (calls' = calls + 1 /\ pc' = "got")]_vars
    /\ []((Returned /\ ret = None /\ extracted_value # NA) => attempt = max_retries)
    /\ []((Returned /\ ret # None)
            => /\ ContainsCI(extracted_value, text_data)
               /\ TypeConversion(expected_type, extracted_value) = Ok(ret))

\* a number returned after an earlier grounded answer failed to convert
C6_Witness ==
    /\ Returned
    /\ conv_fail > 0
    /\ expected_type = "number"
    /\ ret # None

(***************************************************************************)
(* C7: the substring check accepts a candidate exactly when its lower-     *)
(* cased text is a contiguous substring of the lower-cased document, at    *)
(* the guardrail of the plain extractor and at every checked position of   *)
(* validate_fields_against_source, the empty candidate included.           *)
(***************************************************************************)
C7_SubstringGrounding ==
    verdict # None =>
        IF verdict.site = "guardrail"
        THEN verdict.supported = ContainsCI(candidate, text_data)
        ELSE validated_data.keys # <<LanguageKey>> =>
                /\ verdict.is_valid = ContainsCI(candidate, text_data)
                /\ verdict.unverified =
                       IF ContainsCI(candidate, text_data) THEN <<>> ELSE <<candidate>>

\* accepted although the candidate's case differs from the document's
C7_Witness ==
    /\ verdict # None
    /\ verdict.site = "guardrail"
    /\ verdict.supported
    /\ candidate # <<>>
    /\ ~PyIn(candidate, text_data)

(***************************************************************************)
(* C8: a client call that raises never propagates out of the extractor,    *)
(* and the leaf it was issued for ends as null (scalar) or as the empty    *)
(* sequence (list), in the plain and in the Guardrails extractor.          *)
(***************************************************************************)
C8_FailedCallGivesNullOrEmpty ==
    /\ pc # "crashed"
    /\ (Returned /\ failed_call) =>
          ret = IF callee = "extract_and_validate_list" THEN List(<<>>) ELSE None

(***************************************************************************)
(* C9: no leaf failure aborts the walk: nothing propagates, the finished   *)
(* walk has visited every leaf of the schema in order, and a leaf whose    *)
(* extraction failed (sentinel, retries used up, failed client call,       *)
(* failed guard, malformed list answer) is returned as null if scalar and  *)
(* as the empty sequence if a list.                                        *)
(***************************************************************************)
C9_LeafFailuresContained ==
    /\ pc # "crashed"
    /\ pc = "done" => visited = LeavesUnder(json_schema, <<>>)
    /\ (Returned /\ LeafFailed) =>
          ret = IF callee = "extract_and_validate_list" THEN List(<<>>) ELSE None

(***************************************************************************)
(* C10: extract_and_validate_list returns the parsed value exactly when    *)
(* the guard call gave a raw output that parses as a JSON array; for a     *)
(* raw output that does not parse, one that parses to something else, and  *)
(* a guard call that raised, it returns the empty sequence; no exception   *)
(* leaves it.                                                              *)
(***************************************************************************)
C10_ListVerbatimOrEmpty ==
    /\ pc # "crashed"
    /\ (Returned /\ callee = "extract_and_validate_list") =>
          ret = IF response.ok /\ IsJsonArray(response.v.raw_llm_output)
                THEN json_loads(response.v.raw_llm_output).v
                ELSE List(<<>>)

\* the raw output "not json" gave the empty sequence
C10_Witness ==
    /\ Returned
    /\ callee = "extract_and_validate_list"
    /\ response.ok
    /\ response.v.raw_llm_output = Str(<<"n","o","t"," ","j","s","o","n">>)
    /\ ret = List(<<>>)

(***************************************************************************)
(* C11: the relevance gate fails closed.  The extraction query is issued   *)
(* only after an affirmative answer of the model to the classification;    *)
(* after any other answer (negative, malformed, none) and after a failed   *)
(* client call the function returns the same "not relevant" value as for   *)
(* a negative answer; nothing is raised out of the function.               *)
(***************************************************************************)
Affirmative(o) ==
    /\ o.kind = "content"
    /\ json_loads(Str(o.text)).ok
    /\ json_loads(Str(o.text)).v.t = "dict"
    /\ PyGet(json_loads(Str(o.text)).v, Proccess) = Ok(Bool(TRUE))

C11_GateFailsClosed ==
    /\ pc \in {"v_gate", "v_struct", "v_ret"}
    /\ Len(queries) = 2 => Affirmative(queries[1].answer)
    /\ (pc = "v_ret" /\ Len(queries) = 1 /\ ~Affirmative(queries[1].answer))
          => processed_data = Str(NotRelevant)

(***************************************************************************)
(* C12: when the gate's validated answer says "not relevant", the function *)
(* returns at once: the only query issued is the gate's, the extraction    *)
(* query is never issued, and the value returned is the marker string,     *)
(* which no result returned after an extraction equals (those are          *)
(* dictionaries).                                                          *)
(***************************************************************************)
GateSaidNo ==
    /\ validated_email # None
    /\ ~PyTruthy(PyGet(validated_email, Proccess).v)

C12_NegativeGateShortCircuits ==
    /\ GateSaidNo => /\ pc = "v_ret"
                     /\ Len(queries) = 1
                     /\ processed_data = Str(NotRelevant)
    /\ Len(queries) = 2 => pc = "v_ret" /\ ~GateSaidNo
    /\ (pc = "v_ret" /\ Len(queries) = 2)
          => processed_data.t = "dict" /\ processed_data # Str(NotRelevant)

\* the model answered {"proccess": false} and the marker was returned
C12_Witness ==
    /\ pc = "v_ret"
    /\ validated_email = JDict(<<Proccess>>, <<Bool(FALSE)>>)
    /\ queries[1].answer.kind = "content"
    /\ queries[1].answer.text = GateNo
    /\ processed_data = Str(NotRelevant)

(***************************************************************************)
(* C13: no filename is submitted twice and no filename is begun twice by   *)
(* the worker; the status of an entry changes only from "processing" to    *)
(* "completed" or "error", only by the worker whose task the filename is,  *)
(* and a status other than "processing" never changes again, whatever the  *)
(* main thread, the worker and the request handlers do in between.         *)
(***************************************************************************)
NoDuplicates(s) == \A i, j \in DOMAIN s : i # j => s[i] # s[j]

BegunNames == [k \in DOMAIN begun |-> begun[k].filename]

C13_OneTaskOneTransition ==
    /\ [](NoDuplicates(submitted) /\ NoDuplicates(BegunNames))
    /\ [](\A f \in DOMAIN PROCESSING_CACHE :
             PROCESSING_CACHE[f].status # "processing"
                => \E k \in DOMAIN begun : begun[k].filename = f)
    /\ [][\A f \in DOMAIN PROCESSING_CACHE :
             /\ f \in DOMAIN PROCESSING_CACHE'
             /\ PROCESSING_CACHE'[f].status # PROCESSING_CACHE[f].status
                  => /\ PROCESSING_CACHE[f].status = "processing"
                     /\ PROCESSING_CACHE'[f].status \in {"completed", "error"}
                     /\ f = filename]_vars

\* one entry completed and another failed, with a request answered
C13_Witness ==
    /\ \E f \in DOMAIN PROCESSING_CACHE : PROCESSING_CACHE[f].status = "completed"
    /\ \E f \in DOMAIN PROCESSING_CACHE : PROCESSING_CACHE[f].status = "error"
    /\ reply # None
    /\ pc = "idle"
    /\ executor.work_queue = <<>>

(***************************************************************************)
(* C14: get_email_content answers with the content and the processed data  *)
(* of an entry only when its status is "completed", and with the not-ready *)
(* error (404) when the filename is unknown or the status is anything      *)
(* else, an entry in "processing" whose content is already written         *)
(* included, wherever the worker stands.                                   *)
(***************************************************************************)
Completed(name) ==
    /\ name \in DOMAIN PROCESSING_CACHE
    /\ PROCESSING_CACHE[name].status = "completed"

C14_OnlyCompletedServed ==
    /\ [](request # None => Completed(request.filename))
    /\ []((reply # None /\ reply.code = 200)
            => /\ Completed(reply.filename)
               /\ reply.content = PROCESSING_CACHE[reply.filename].content
               /\ reply.processed = PROCESSING_CACHE[reply.filename].processed)
    /\ [][(request = None /\ (reply' # reply \/ request' # request))
            => LET name == IF request' # None THEN request'.filename
                           ELSE reply'.filename
               IN  IF Completed(name)
                   THEN request' # None /\ reply' = reply
                   ELSE request' = None /\ reply'.code = 404]_vars

\* the not-ready answer for an entry whose content is already written
C14_Witness ==
    /\ reply # None
    /\ reply.code = 404
    /\ reply.filename \in DOMAIN PROCESSING_CACHE
    /\ PROCESSING_CACHE[reply.filename].status = "processing"
    /\ PROCESSING_CACHE[reply.filename].content # None
    /\ PROCESSING_CACHE[reply.filename].processed = None

(***************************************************************************)
(* C15: after the shutdown request the worker begins no task and no model  *)
(* query is started, and an entry whose task was never begun stays as it   *)
(* was entered: "processing", with nothing written.                        *)
(***************************************************************************)
C15_ShutdownStopsNewWork ==
    /\ \A k \in DOMAIN begun : ~begun[k].after_shutdown
    /\ \A k \in DOMAIN queries : ~queries[k].after_shutdown
    /\ \A f \in DOMAIN PROCESSING_CACHE :
          (\A k \in DOMAIN begun : begun[k].filename # f)
             => PROCESSING_CACHE[f] = NewEntry

(***************************************************************************)
(* C20: an entry whose status is "completed" has its content and its       *)
(* processed data set, and so has every answer get_email_content gives     *)
(* with them.                                                              *)
(***************************************************************************)
C20_CompletedIsFilled ==
    /\ \A f \in DOMAIN PROCESSING_CACHE :
          PROCESSING_CACHE[f].status = "completed"
             => /\ PROCESSING_CACHE[f].content # None
                /\ PROCESSING_CACHE[f].processed # None
    /\ (reply # None /\ reply.code = 200)
          => reply.content # None /\ reply.processed # None

\* an answer with the data of a document found not relevant
C20_Witness ==
    /\ reply # None
    /\ reply.code = 200
    /\ reply.content = EmailData
    /\ reply.processed = Str(NotRelevant)

\* the answer holds one of the truthy words, whatever the case of its letters
Truthy(v) ==
    \/ ContainsCI(<<"y","e","s">>, v)
    \/ ContainsCI(<<"t","r","u","e">>, v)
    \/ ContainsCI(<<"s","t","a","c","k","a","b","l","e">>, v)

\* a call for a boolean has returned after a last answer that is not the
\* sentinel
BooleanAnswered ==
    /\ callee = "extract_and_validate_field"
    /\ script = "plain"
    /\ expected_type = "boolean"
    /\ Returned
    /\ calls > 0
    /\ ~IsSentinel(extracted_value)

\* C16 as stated: for expected type boolean the result is true exactly when
\* the answer holds "yes", "true" or "stackable" in any case, every other
\* answer but the sentinel gives false, and the boolean coercion never fails
\* or causes a retry.
C16_BooleanFromAnyAnswer ==
    /\ BooleanAnswered => ret = Bool(Truthy(extracted_value))
    /\ (script = "plain" /\ expected_type = "boolean") => conv_fail = 0

\* C16, amended: for expected type boolean and an answer found in the
\* document, the result is true exactly when the answer holds "yes", "true"
\* or "stackable" in any case and false otherwise; an answer not found in the
\* document is retried and gives null; the boolean coercion never fails or
\* causes a retry.
C16_BooleanFromGroundedAnswer ==
    (script = "plain" /\ expected_type = "boolean") =>
        /\ conv_fail = 0
        /\ pc = "convert" => TypeConversion(expected_type, extracted_value).ok
        /\ (BooleanAnswered /\ IsGroundedIn(extracted_value, text_data))
              => ret = Bool(Truthy(extracted_value))
        /\ (BooleanAnswered /\ ~IsGroundedIn(extracted_value, text_data))
              => ret = None /\ attempt = max_retries
        /\ (Returned /\ ret # None) => ret = Bool(Truthy(extracted_value))

C16_Witness ==
    /\ BooleanAnswered
    /\ extracted_value = <<"Y","E","S">>
    /\ ret = Bool(TRUE)

\* C19: for a numeric-looking string, the number coercion applied to the
\* result of the number coercion gives the same value as the number coercion
\* applied once.
C19_NumberCoercionIdempotent ==
    pc = "recoerced" => recoerced = coerced

\* two trees are the same dictionary: the same paths, at an object of the
\* schema the same set of keys (a dict compares without the order of its
\* keys), elsewhere the same value
SameTree(x, y) ==
    /\ DOMAIN x = DOMAIN y
    /\ \A p \in DOMAIN x :
          IF p \in DOMAIN json_schema /\ json_schema[p].t = "dict"
          THEN NodeShape(x[p]) = NodeShape(y[p])
          ELSE x[p] = y[p]

\* {city: "Dallas", pallets: [{count: 12}]}
DallasResult ==
    (<<>> :> Dict(<<"city", "pallets">>))
    @@ (<<"city">> :> Str(Dallas))
    @@ (<<"pallets">> :> List(<<JDict(<<CountKey>>, <<IntV(12)>>)>>))

\* the walk of the scenario has returned
DallasScenario ==
    /\ script = "guard"
    /\ text_data = DallasDoc
    /\ json_schema \in {DallasSchema, DallasSchemaReversed}
    /\ mock \in DallasMocks
    /\ pc = "done"

\* the guard is known to leave the city as it is and not to raise on the
\* pallets
GuardLeavesAnswers ==
    /\ mock.of[<<"City">>].verdicts = {"pass"}
    /\ "raise" \notin mock.of[<<"List">>].verdicts

FixedByDescription ==
    /\ Mocked
    /\ \A k \in DOMAIN mock.of : Cardinality(mock.of[k].verdicts) = 1

\* what the extractor returns for the leaf at p of the schema, from the
\* document, the leaf and the mocked answer to its description alone
LeafValue(p) ==
    LET k == IF script = "plain" THEN p
             ELSE IF json_schema[p].t = "list" THEN <<"List">>
             ELSE <<json_schema[p].d>>
        a == mock.of[k].answer
        g == CHOOSE v \in mock.of[k].verdicts : TRUE
        r == get_llm_extraction(a).v
        c == TypeConversion(json_schema[p].d, r)
    IN  IF script = "guard"
        THEN IF json_schema[p].t = "list" THEN GuardedList(a, g).v
             ELSE GuardedField(a, g).v
        ELSE IF IsSentinel(r) \/ ~IsGroundedIn(r, text_data) \/ ~c.ok THEN None
        ELSE c.v

\* C18: with a model whose answer depends only on the document and the
\* leaf's description, the returned tree is the same whatever the order of
\* the keys of the schema's objects: every leaf holds the value its own
\* extraction gives, which depends on no other leaf, and every object holds
\* the keys of the schema.
C18_ChildrenIndependent ==
    (pc = "done" /\ FixedByDescription) =>
        /\ DOMAIN output_data = DOMAIN json_schema
        /\ \A p \in DOMAIN json_schema :
              IF json_schema[p].t = "dict"
              THEN NodeShape(output_data[p]) = NodeShape(json_schema[p])
              ELSE output_data[p] = LeafValue(p)

C18_Witness ==
    /\ pc = "done"
    /\ FixedByDescription
    /\ script = "plain"
    /\ json_schema[<<>>].keys = <<"cargo", "city">>
    /\ json_schema[<<"cargo">>].keys = <<"stackable", "count">>
    /\ output_data[<<"cargo", "stackable">>] = None
    /\ output_data[<<"cargo", "count">>] = IntV(12)
    /\ output_data[<<"city">>] = Str(Dallas)

\* the entry of name is in the cache with one of the statuses
HasStatus(name, statuses) ==
    /\ name \in DOMAIN PROCESSING_CACHE
    /\ PROCESSING_CACHE[name].status \in statuses

\* C21: without a shutdown, with the worker scheduled fairly and every parse
\* and model call returning or failing, every filename entered into the cache
\* as 'processing' eventually reaches 'completed' or 'error'; the task at work
\* always has its entry in the cache, so that no write of the worker, the
\* except clause's included, raises.
C21_EveryEntrySettles ==
    /\ [](filename # "" => filename \in DOMAIN PROCESSING_CACHE)
    /\ \A f \in Files :
          HasStatus(f, {"processing"}) ~> HasStatus(f, {"completed", "error"})

C21_Witness ==
    /\ Len(email_files) = MaxFiles
    /\ HasStatus(email_files[1], {"error"})
    /\ HasStatus(email_files[MaxFiles], {"completed"})
    /\ pc = "idle"
    /\ executor.work_queue = <<>>

\* {"error": "Guardrails validation failed.", "details": ...}
IsErrorDict(v) ==
    /\ v.t = "dict"
    /\ v.keys = <<ErrorKey, DetailsKey>>
    /\ v.vals[1] = Str(ValidationFailed)

\* a non-empty dictionary of fields of ExpectedOutput
IsValidatedStructure(v) ==
    /\ v.t = "dict"
    /\ v.keys # <<>>
    /\ \A n \in 1..Len(v.keys) : v.keys[n] \in {LanguageKey, ShipmentKey, RatesKey}

\* the three values process_text_with_validators returns
ReturnedValue(v) ==
    \/ v = Str(NotRelevant)
    \/ IsValidatedStructure(v)
    \/ IsErrorDict(v)

\* C22: the status 'error' is set only by the except clause after the parse
\* raised, before any content was stored; process_text_with_validators ends
\* every call, failed gate, failed model call and failed structural
\* validation included, by returning the marker, the validated structure or
\* an error dictionary, and the entry then becomes 'completed' with that
\* value as 'processed'.
C22_ErrorOnlyFromParsing ==
    /\ [](\A f \in Files :
            HasStatus(f, {"error"}) =>
                /\ PROCESSING_CACHE[f].content = None
                /\ PROCESSING_CACHE[f].processed \in {None, ParseError})
    /\ [](\A f \in Files :
            HasStatus(f, {"completed"}) => ReturnedValue(PROCESSING_CACHE[f].processed))
    /\ []((pc = "v_ret" /\ filename # "") =>
             /\ ReturnedValue(processed_data)
             /\ HasStatus(filename, {"processing"}))
    /\ [][\A f \in Files :
             (HasStatus(f, {"processing"}) /\ PROCESSING_CACHE'[f].status = "error")
                 => pc = "w_parse" /\ f = filename]_vars
    /\ [][(pc \in {"v_gate", "v_struct"} /\ pc' # pc)
             => pc' \in {"v_struct", "v_ret"}]_vars
    /\ [][(pc = "v_ret" /\ filename # "" /\ pc' # pc)
             => /\ pc' = "w_status"
                /\ PROCESSING_CACHE'[filename].processed = processed_data]_vars
    /\ [][(pc = "w_status" /\ pc' # pc)
             => /\ PROCESSING_CACHE'[filename].status = "completed"
                /\ PROCESSING_CACHE'[filename].processed
                       = PROCESSING_CACHE[filename].processed]_vars

\* a failed model call left its entry 'completed', a failed parse 'error'
C22_Witness ==
    /\ Len(email_files) = MaxFiles
    /\ HasStatus(email_files[1], {"completed"})
    /\ IsErrorDict(PROCESSING_CACHE[email_files[1]].processed)
    /\ HasStatus(email_files[MaxFiles], {"error"})
    /\ PROCESSING_CACHE[email_files[MaxFiles]].processed = ParseError

====
